---- MODULE Spec2Model ----
(***************************************************************************)
(* Model of the OCPP 1.6 fake charging station (esiebert/v16-fcs):         *)
(* fake_charging_station/fcs_v16/connector.py and fcs_v16.py, with the     *)
(* callers in app.py and session.py.                                       *)
(*                                                                         *)
(* The station runs on one asyncio event loop.  A coroutine runs           *)
(* atomically between two suspension points (an awaited call or sleep), so *)
(* every action below is one such segment: it consumes the reply of the    *)
(* call the task was awaiting, runs the code up to the next await, and     *)
(* emits the message of that await.                                        *)
(***************************************************************************)
EXTENDS Integers, Sequences, FiniteSets, Bags, TLC

\* ------------------------------------------------------------------ bounds
MaxTx == 2
MaxEnergy == 1
MaxCalls == 3

\* ------------------------------------------------------------- value sets
\* Power and energy are Python floats; the model keeps them in fixed point, as
\* integers counting half watts (half watt-hours): W(n) is n W.
W(n) == n + n
Half == W(1) \div (1 + 1)

NoTransaction == 0
TransactionIds == 1..MaxTx
None == "None"
Rfids == {"abc"}
Limits == {W(-2), W(-1), -Half, W(0), Half}
\* the limits that are whole numbers of watts
IntLimits == {l \in Limits : l % W(1) = 0}

Statuses == {"Available", "Preparing", "Charging", "SuspendedEVSE", "SuspendedEV",
             "Finishing", "Unavailable", "Reserved", "Faulted"}

NoPending == [set |-> FALSE, id_tag |-> None, transaction_id |-> NoTransaction,
              energy_import_register |-> 0]

\* ---------------------------------------------------------------- Connector
\* Connector.__init__
NewConnector ==
    [ change_to_unavailable |-> FALSE,
      pending_stop_tx |-> NoPending,
      id_tag |-> None,
      transaction_id |-> NoTransaction,
      energy_import_register |-> 0,
      power_offered |-> 0,
      error_code |-> "NoError",
      plugged_in |-> FALSE,
      already_stopped |-> TRUE,
      status |-> "Available" ]

\* reset that takes no notice of change_to_unavailable
reset_unlatched(k, postpone_stop_tx) ==
    [ k EXCEPT
      !.pending_stop_tx =
          IF postpone_stop_tx
          THEN [set |-> TRUE, id_tag |-> k.id_tag, transaction_id |-> k.transaction_id,
                energy_import_register |-> k.energy_import_register]
          ELSE NoPending,
      !.id_tag = None,
      !.transaction_id = NoTransaction,
      !.energy_import_register = 0,
      !.power_offered = 0,
      !.error_code = "NoError",
      !.plugged_in = FALSE,
      !.already_stopped = TRUE,
      !.status = "Available" ]

\* Connector.reset
reset(k, postpone_stop_tx) ==
    [ k EXCEPT
      !.pending_stop_tx =
          IF postpone_stop_tx
          THEN [set |-> TRUE, id_tag |-> k.id_tag, transaction_id |-> k.transaction_id,
                energy_import_register |-> k.energy_import_register]
          ELSE NoPending,
      !.id_tag = None,
      !.transaction_id = NoTransaction,
      !.energy_import_register = 0,
      !.power_offered = 0,
      !.error_code = "NoError",
      !.plugged_in = FALSE,
      !.already_stopped = TRUE,
      !.status = IF k.change_to_unavailable THEN "Unavailable" ELSE "Available" ]

\* Connector.ready_to_charge
ready_to_charge(k) == k.status = "Preparing" /\ k.plugged_in

\* consume_energy that consumes nothing
consume_energy_idle(k) == k

\* Connector.consume_energy
consume_energy(k) ==
    [k EXCEPT !.energy_import_register = k.energy_import_register + k.power_offered]

\* update_status whose last branch does not test power_offered
update_status_untested(k) ==
    IF k.power_offered = W(0) /\ k.status # "SuspendedEVSE"
    THEN [conn |-> [k EXCEPT !.status = "SuspendedEVSE"], ret |-> TRUE]
    ELSE IF k.power_offered = W(-1) /\ k.status # "SuspendedEV"
    THEN [conn |-> [k EXCEPT !.status = "SuspendedEV"], ret |-> TRUE]
    ELSE IF k.power_offered = W(-2) /\ k.status # "Finishing"
    THEN [conn |-> [k EXCEPT !.status = "Finishing"], ret |-> TRUE]
    ELSE IF k.status # "Charging"
    THEN [conn |-> [k EXCEPT !.status = "Charging"], ret |-> TRUE]
    ELSE [conn |-> k, ret |-> FALSE]

\* Connector.update_status: the if/elif chain, in the order of the source.
\* Returns the connector and the method's return value.
update_status(k) ==
    IF k.power_offered = W(0) /\ k.status # "SuspendedEVSE"
    THEN [conn |-> [k EXCEPT !.status = "SuspendedEVSE"], ret |-> TRUE]
    ELSE IF k.power_offered = W(-1) /\ k.status # "SuspendedEV"
    THEN [conn |-> [k EXCEPT !.status = "SuspendedEV"], ret |-> TRUE]
    ELSE IF k.power_offered = W(-2) /\ k.status # "Finishing"
    THEN [conn |-> [k EXCEPT !.status = "Finishing"], ret |-> TRUE]
    ELSE IF k.power_offered # W(0) /\ k.status # "Charging"
    THEN [conn |-> [k EXCEPT !.status = "Charging"], ret |-> TRUE]
    ELSE [conn |-> k, ret |-> FALSE]

\* change_availability whose Operative branch leaves the latch alone
change_availability_latched(k, availability_type) ==
    IF availability_type = "Inoperative"
    THEN IF k.status = "Available"
         THEN [conn |-> [k EXCEPT !.status = "Unavailable"], ret |-> TRUE]
         ELSE [conn |-> [k EXCEPT !.change_to_unavailable = TRUE], ret |-> FALSE]
    ELSE IF availability_type = "Operative" /\ k.status = "Unavailable"
    THEN [conn |-> [k EXCEPT !.status = "Available"], ret |-> TRUE]
    ELSE [conn |-> k, ret |-> FALSE]

\* change_availability that does not latch an Inoperative it cannot apply
change_availability_forgetful(k, availability_type) ==
    IF availability_type = "Inoperative"
    THEN IF k.status = "Available"
         THEN [conn |-> [k EXCEPT !.status = "Unavailable"], ret |-> TRUE]
         ELSE [conn |-> k, ret |-> FALSE]
    ELSE IF availability_type = "Operative" /\ k.status = "Unavailable"
    THEN [conn |-> [k EXCEPT !.status = "Available", !.change_to_unavailable = FALSE],
          ret |-> TRUE]
    ELSE [conn |-> k, ret |-> FALSE]

\* Connector.change_availability
change_availability(k, availability_type) ==
    IF availability_type = "Inoperative"
    THEN IF k.status = "Available"
         THEN [conn |-> [k EXCEPT !.status = "Unavailable"], ret |-> TRUE]
         ELSE [conn |-> [k EXCEPT !.change_to_unavailable = TRUE], ret |-> FALSE]
    ELSE IF availability_type = "Operative" /\ k.status = "Unavailable"
    THEN [conn |-> [k EXCEPT !.status = "Available", !.change_to_unavailable = FALSE],
          ret |-> TRUE]
    ELSE [conn |-> k, ret |-> FALSE]

\* round() of a Python float: to the nearest integer, ties to the even one.
Round(e) ==
    LET q == e \div W(1)
        r == e % W(1)
    IN  IF r < Half THEN q
        ELSE IF r > Half THEN q + 1
        ELSE IF q % 2 = 0 THEN q ELSE q + 1



\* ------------------------------------------------------- configuration values
\* A Python value of the configuration map: a str, an int or a list (kept as
\* the text str() gives for it).
PyStr(s) == [type |-> "str", str |-> s, int |-> 0]
PyInt(n) == [type |-> "int", str |-> "", int |-> n]
PyList(repr) == [type |-> "list", str |-> repr, int |-> 0]

\* The decimal numerals the model reads and writes.
Numerals ==
    ("1" :> 1) @@ ("2" :> 2) @@ ("5" :> 5) @@ ("10" :> 10) @@ ("300" :> 300) @@ ("600" :> 600)

\* int(v): the number, or the exception raised
int(v) ==
    IF v.type = "int" THEN [ok |-> TRUE, int |-> v.int, error |-> None]
    ELSE IF v.type = "list" THEN [ok |-> FALSE, int |-> 0, error |-> "TypeError"]
    ELSE IF v.str \in DOMAIN Numerals THEN [ok |-> TRUE, int |-> Numerals[v.str], error |-> None]
    ELSE [ok |-> FALSE, int |-> 0, error |-> "ValueError"]

\* str(v)
str(v) ==
    IF v.type = "int"
    THEN PyStr(CHOOSE s \in DOMAIN Numerals : Numerals[s] = v.int)
    ELSE PyStr(v.str)

\* meter_values.METER_VALUES_SAMPLED_DATA
METER_VALUES_SAMPLED_DATA ==
    PyList("['Power.Offered', 'Power.Active.Import', 'Energy.Active.Import.Register', 'Voltage', 'SoC']")

\* FakeChargingStation.__init__: self.configuration
NewConfiguration(number_of_connectors) ==
    [key \in {"HeartbeatInterval", "MeterValuesSampledData", "MeterValueSampleInterval",
              "NumberOfConnectors", "AuthorizeRemoteTxRequests"} |->
        CASE key = "HeartbeatInterval" -> PyStr("600")
          [] key = "MeterValuesSampledData" -> METER_VALUES_SAMPLED_DATA
          [] key = "MeterValueSampleInterval" -> PyStr("10")
          [] key = "NumberOfConnectors" -> str(PyInt(number_of_connectors))
          [] key = "AuthorizeRemoteTxRequests" -> PyStr("false")]

\* An element of a reply's configuration_key list: a dict, or a list of elements
Entry(key, value) ==
    [kind |-> "dict", key |-> key, readonly |-> FALSE, value |-> value, items |-> {}]
ListOf(items) ==
    [kind |-> "list", key |-> None, readonly |-> FALSE, value |-> PyStr(""), items |-> items]

\* The argument keys of GetConfiguration: absent, or a list of keys
NoKeys == [given |-> FALSE, set |-> {}]
Keys(set) == [given |-> TRUE, set |-> set]

\* A GetConfigurationPayload; the lists are kept as sets, their order is that of
\* a Python set and is not modelled.
NoPayload == [configuration_key |-> {}, unknown_key |-> {}]

\* on_get_configuration
on_get_configuration(conf, keys) ==
    IF ~keys.given
    THEN [NoPayload EXCEPT
            !.configuration_key = {Entry(k, str(conf[k])) : k \in DOMAIN conf}]
    ELSE LET requested_keys == keys.set
             available_keys == DOMAIN conf
             unknown_keys == requested_keys \ available_keys
             existing_keys == available_keys \cap requested_keys
             configuration_keys == {Entry(key, conf[key]) : key \in existing_keys}
         IN  [configuration_key |-> {ListOf(configuration_keys)},
              unknown_key |-> unknown_keys]

\* on_change_configuration that drops the value
on_change_configuration_dropped(conf, key, value) ==
    [configuration |-> conf, status |-> "Accepted"]

\* on_change_configuration
on_change_configuration(conf, key, value) ==
    [configuration |-> [k \in DOMAIN conf \cup {key} |-> IF k = key THEN value ELSE conf[k]],
     status |-> "Accepted"]

\* ------------------------------------------------------------------- state
VARIABLES
    connectors,             \* FakeChargingStation.connectors: id -> Connector
    transaction_connector,  \* FakeChargingStation.transaction_connector: tx id -> connector id
    tx_start_charge,        \* FakeChargingStation.tx_start_charge (0 when None)
    max_tasks,              \* how many requests the clients of the station let overlap
    tasks,                  \* bag of suspended coroutines (operator requests, after-hooks)
    meter_pos,              \* meter_value_loop: the next connector to visit (1 while asleep)
    heartbeat_pos,          \* send_heartbeat: "sleep" in a sleep, "call" awaiting the reply
    configuration,          \* FakeChargingStation.configuration: key -> value
    connection,             \* self._connection: "none", "open" or "closed"
    running,                \* the background tasks created and not cancelled
    self_tasks,             \* FakeChargingStation.tasks: the tasks disconnect cancels
    connected,              \* FakeChargingStation.connected
    out,                    \* the OCPP call sent by the last step (NoMsg when none)
    ev                      \* the last step: operation, segment, reply consumed, outcome

vars == <<connectors, transaction_connector, tx_start_charge, max_tasks, tasks, meter_pos,
          heartbeat_pos, configuration,
          connection, running, self_tasks, connected, out, ev>>

\* The background tasks of boot_up: the receiver, which serves the calls of the
\* CSMS and delivers its replies, and the two loops.
BackgroundTasks == {"receiver", "heartbeat", "meter"}

Reasons == {None}
AvailabilityTypes == {"Operative", "Inoperative"}
AuthorizeReplies == {"Absent", "Accepted", "Invalid"}
\* A StartTransaction reply: none, one whose transaction_id is None, one whose
\* transaction_id is the integer 0, one with a positive transaction_id
StartReplies == {"Absent", "NoId", "Zero", "Id"}

\* An outbound call.Payload; the fields a payload does not have stay at their defaults.
NoMsg ==
    [type |-> "None", connector_id |-> 0, status |-> None, id_tag |-> None,
     transaction_id |-> NoTransaction, meter |-> 0, power |-> 0, reason |-> None]

\* The last step.  log is the conversation of its operation so far: the replies
\* the station gave or received and the types of the calls it made, in order;
\* sleep is the length of the sleep a loop begins in the step (0 when none);
\* key, value and keys are the arguments of a configuration request and payload
\* the GetConfigurationPayload returned; step is the step of the session plan the
\* operation runs in (0 outside a plan).
NoEvent ==
    [op |-> "None", seg |-> "None", cid |-> 0, rfid |-> None, stop_tx |-> FALSE, limit |-> 0,
     type |-> None, transaction_id |-> NoTransaction, reply |-> None,
     outcome |-> "None", ret |-> FALSE, log |-> <<>>, sleep |-> 0,
     key |-> None, value |-> PyStr(""), keys |-> NoKeys, payload |-> NoPayload,
     step |-> 0]

\* A coroutine: the operation whose request started it, the await it is suspended
\* at, its arguments and locals, and its conversation so far.
Frame(op, cid, rfid, stop_tx, tx, limit, type) ==
    [op |-> op, pc |-> "call", cid |-> cid, rfid |-> rfid, stop_tx |-> stop_tx,
     tx |-> tx, limit |-> limit, type |-> type, transaction_id |-> NoTransaction,
     log |-> <<>>, step |-> 0]

\* What a segment leaves behind: the connector map, the index, the call it ends in,
\* the next await ("done" when the coroutine returned or raised) and the local
\* transaction id kept across the await.
Res(conn, idx, msg, pc, outcome, tx) ==
    [conn |-> conn, idx |-> idx, msg |-> msg, pc |-> pc, outcome |-> outcome, tx |-> tx]

\* dict assignment and del on transaction_connector
Put(idx, t, c) == [x \in (DOMAIN idx) \cup {t} |-> IF x = t THEN c ELSE idx[x]]
Del(idx, t) == [x \in (DOMAIN idx) \ {t} |-> idx[x]]
EmptyIndex == [x \in {} |-> 0]

\* ------------------------------------------------------- outbound payloads
\* send_status_notification._notify_status
StatusNotification(conn, c) ==
    [NoMsg EXCEPT !.type = "StatusNotification", !.connector_id = c,
                  !.status = conn[c].status]

AuthorizePayload(rfid) == [NoMsg EXCEPT !.type = "Authorize", !.id_tag = rfid]

StartTransactionPayload(conn, c) ==
    [NoMsg EXCEPT !.type = "StartTransaction", !.connector_id = c,
                  !.id_tag = conn[c].id_tag]

StopTransactionPayload(transaction_id, id_tag, meter_stop, reason) ==
    [NoMsg EXCEPT !.type = "StopTransaction", !.transaction_id = transaction_id,
                  !.id_tag = id_tag, !.meter = meter_stop, !.reason = reason]

\* Connector.get_meter_values / generate_meter_values
MeterValuesPayload(conn, c) ==
    [NoMsg EXCEPT !.type = "MeterValues", !.connector_id = c,
                  !.transaction_id = conn[c].transaction_id,
                  !.power = conn[c].power_offered,
                  !.meter = conn[c].energy_import_register]


\* --------------------------------------------- FakeChargingStation segments
SetC(conn, c, k) == [conn EXCEPT ![c] = k]

Returned(conn, idx) == Res(conn, idx, NoMsg, "done", "returned", NoTransaction)
Raised(conn, idx, error) == Res(conn, idx, NoMsg, "done", error, NoTransaction)

\* send_start_transaction, up to its await of the StartTransaction call
send_start_transaction(conn, idx, c) ==
    Res(conn, idx, StartTransactionPayload(conn, c), "start", "running", NoTransaction)

\* send_start_transaction that does not enter the transaction in the index
send_start_transaction_reply_unindexed(conn, idx, c, reply, t, txc) ==
    IF reply = "Absent" THEN Raised(conn, idx, "AttributeError")
    ELSE IF reply \in {"NoId", "Zero"} THEN Returned(conn, idx)
    ELSE LET k1 == [conn[c] EXCEPT !.transaction_id = t, !.already_stopped = FALSE]
             k2 == IF txc # 0
                   THEN update_status([k1 EXCEPT !.power_offered = txc]).conn
                   ELSE k1
         IN  Res(SetC(conn, c, k2), idx, NoMsg, "start_sleep", "running", NoTransaction)

\* send_start_transaction that does not look whether the reply has an id
send_start_transaction_reply_unchecked(conn, idx, c, reply, t, txc) ==
    IF reply = "Absent" THEN Raised(conn, idx, "AttributeError")
    ELSE LET id == IF reply = "Id" THEN t ELSE NoTransaction
             k1 == [conn[c] EXCEPT !.transaction_id = id, !.already_stopped = FALSE]
         IN  Res(SetC(conn, c, k1), Put(idx, id, c), NoMsg, "start_sleep", "running",
                 NoTransaction)

\* send_start_transaction that takes no notice of tx_start_charge
send_start_transaction_reply_plain(conn, idx, c, reply, t, txc) ==
    IF reply = "Absent" THEN Raised(conn, idx, "AttributeError")
    ELSE IF reply \in {"NoId", "Zero"} THEN Returned(conn, idx)
    ELSE LET k1 == [conn[c] EXCEPT !.transaction_id = t, !.already_stopped = FALSE]
         IN  Res(SetC(conn, c, k1), Put(idx, t, c), NoMsg, "start_sleep", "running",
                 NoTransaction)

\* send_start_transaction, from the reply to the sleep: t is the id in the
\* reply; `not resp.transaction_id` holds of None and of 0
send_start_transaction_reply(conn, idx, c, reply, t, txc) ==
    IF reply = "Absent" THEN Raised(conn, idx, "AttributeError")
    ELSE IF reply \in {"NoId", "Zero"} THEN Returned(conn, idx)
    ELSE LET k1 == [conn[c] EXCEPT !.transaction_id = t, !.already_stopped = FALSE]
             k2 == IF txc # 0
                   THEN update_status([k1 EXCEPT !.power_offered = txc]).conn
                   ELSE k1
         IN  Res(SetC(conn, c, k2), Put(idx, t, c), NoMsg, "start_sleep", "running",
                 NoTransaction)

\* send_start_transaction, after the sleep: the closing StatusNotification
send_start_transaction_slept(conn, idx, c) ==
    Res(conn, idx, StatusNotification(conn, c), "done", "returned", NoTransaction)

\* send_auth_start that authorizes whether or not anything is plugged in
send_auth_start_unchecked(conn, idx, c, rfid) ==
    Res(conn, idx, AuthorizePayload(rfid), "auth", "running", NoTransaction)

\* send_auth_start, up to the await of Authorize inside send_authorize
send_auth_start(conn, idx, c, rfid) ==
    IF ~conn[c].plugged_in
    THEN Raised(conn, idx, "RejectedCS")
    ELSE Res(conn, idx, AuthorizePayload(rfid), "auth", "running", NoTransaction)

\* send_authorize that takes every reply that is present for an acceptance
send_authorize_reply_lenient(conn, idx, c, rfid, reply) ==
    IF reply = "Absent"
    THEN Raised(conn, idx, "RejectedCSMS")
    ELSE LET c1 == SetC(conn, c, [conn[c] EXCEPT !.id_tag = rfid])
             c2 == SetC(c1, c, [c1[c] EXCEPT !.status = "Preparing"])
         IN  IF c1[c].status # "Preparing"
             THEN Res(c2, idx, StatusNotification(c2, c), "auth_sn", "running", NoTransaction)
             ELSE send_start_transaction(c1, idx, c)

\* send_authorize from the Authorize reply on (change_status inlined), and the
\* branch of send_auth_start on its result
send_authorize_reply(conn, idx, c, rfid, reply) ==
    IF reply # "Accepted"
    THEN Raised(conn, idx, "RejectedCSMS")
    ELSE LET c1 == SetC(conn, c, [conn[c] EXCEPT !.id_tag = rfid])
             c2 == SetC(c1, c, [c1[c] EXCEPT !.status = "Preparing"])
         IN  IF c1[c].status # "Preparing"
             THEN Res(c2, idx, StatusNotification(c2, c), "auth_sn", "running", NoTransaction)
             ELSE send_start_transaction(c1, idx, c)

\* plug_in after change_status: the `if rfid` branch
plug_in_rest(conn, idx, c, rfid) ==
    IF rfid # None THEN send_auth_start(conn, idx, c, rfid) ELSE Returned(conn, idx)

\* plug_in, up to its first await
plug_in(conn, idx, c, rfid) ==
    LET c1 == SetC(conn, c, [conn[c] EXCEPT !.plugged_in = TRUE])
        c2 == SetC(c1, c, [c1[c] EXCEPT !.status = "Preparing"])
    IN  IF c1[c].status # "Preparing"
        THEN Res(c2, idx, StatusNotification(c2, c), "pi_sn", "running", NoTransaction)
        ELSE plug_in_rest(c1, idx, c, rfid)

\* send_stop_transaction that always takes the connector's own fields
send_stop_transaction_live(conn, idx, c, reason) ==
    Res(conn, idx,
        StopTransactionPayload(conn[c].transaction_id, conn[c].id_tag,
                               Round(conn[c].energy_import_register), reason),
        "stop", "running", conn[c].transaction_id)

\* send_stop_transaction, up to its await of the StopTransaction call
send_stop_transaction(conn, idx, c, reason) ==
    LET k == conn[c]
        src == IF k.pending_stop_tx = NoPending
               THEN [transaction_id |-> k.transaction_id, id_tag |-> k.id_tag,
                     energy_import_register |-> k.energy_import_register]
               ELSE k.pending_stop_tx
    IN  Res(conn, idx,
            StopTransactionPayload(src.transaction_id, src.id_tag,
                                   Round(src.energy_import_register), reason),
            "stop", "running", src.transaction_id)

\* unplug after its `if` block: reset and the closing StatusNotification
unplug_reset(conn, idx, c, stop_tx) ==
    LET c1 == SetC(conn, c, reset(conn[c], ~stop_tx))
    IN  Res(c1, idx, StatusNotification(c1, c), "done", "returned", NoTransaction)

\* unplug inside its `if` block, once send_stop_transaction has returned:
\* the StatusNotification that precedes the sleep
unplug_stopped(conn, idx, c) ==
    Res(conn, idx, StatusNotification(conn, c), "up_sn", "running", NoTransaction)

\* send_stop_transaction from the StopTransaction reply on; `op` is the caller,
\* which unplug continues after the return
send_stop_transaction_reply(conn, idx, c, transaction_id, op) ==
    IF transaction_id \notin DOMAIN idx
    THEN Raised(conn, idx, "KeyError")
    ELSE LET idx1 == Del(idx, transaction_id)
             k == conn[c]
             stopped == SetC(conn, c, [k EXCEPT !.already_stopped = TRUE])
             finishing == SetC(conn, c, [k EXCEPT !.already_stopped = TRUE,
                                                  !.status = "Finishing"])
             cleared == SetC(conn, c, reset(k, FALSE))
         IN  IF k.pending_stop_tx = NoPending
             THEN IF k.status # "Finishing"
                  THEN IF op = "unplug"
                       THEN Res(finishing, idx1, StatusNotification(finishing, c),
                                "stop_sn", "running", NoTransaction)
                       ELSE Res(finishing, idx1, StatusNotification(finishing, c),
                                "done", "returned", NoTransaction)
                  ELSE IF op = "unplug"
                       THEN unplug_stopped(stopped, idx1, c)
                       ELSE Returned(stopped, idx1)
             ELSE IF op = "unplug"
                  THEN unplug_stopped(cleared, idx1, c)
                  ELSE Returned(cleared, idx1)

\* unplug, up to its first await
unplug(conn, idx, c, stop_tx) ==
    IF ~conn[c].plugged_in
    THEN Returned(conn, idx)
    ELSE IF ~conn[c].already_stopped /\ stop_tx
    THEN send_stop_transaction(conn, idx, c, "EVDisconnected")
    ELSE unplug_reset(conn, idx, c, stop_tx)

\* stop_fcs awaiting unplug: where unplug is suspended, stop_fcs is; when unplug
\* has returned, the loop of stop_fcs goes on; what unplug raises, stop_fcs raises
stop_fcs_unplug(r) ==
    IF r.pc = "done"
    THEN IF r.outcome = "returned" THEN [r EXCEPT !.pc = "fcs_next", !.outcome = "running"]
         ELSE r
    ELSE [r EXCEPT !.pc = CASE r.pc = "stop" -> "fcs_stop"
                            [] r.pc = "stop_sn" -> "fcs_stop_sn"
                            [] r.pc = "up_sn" -> "fcs_up_sn"]

\* stop_fcs from connector c on, up to its next await: an unplug of a connector
\* that is not plugged in returns at once, past the last connector is the sleep
RECURSIVE stop_fcs(_, _, _)
stop_fcs(conn, idx, c) ==
    IF c \notin DOMAIN conn
    THEN [cid |-> 0, r |-> Res(conn, idx, NoMsg, "fcs_sleep", "running", NoTransaction)]
    ELSE IF ~conn[c].plugged_in
    THEN stop_fcs(conn, idx, c + 1)
    ELSE [cid |-> c, r |-> stop_fcs_unplug(unplug(conn, idx, c, TRUE))]

\* on_remote_start_transaction: the reply and the connector map
on_remote_start_transaction(conn, id_tag, has_connector_id, c) ==
    IF ~has_connector_id
    THEN [conn |-> conn, status |-> "Rejected"]
    ELSE [conn |-> SetC(conn, c, [conn[c] EXCEPT !.id_tag = id_tag]), status |-> "Accepted"]

\* after_remote_start_transaction
after_remote_start_transaction(conn, idx, c) ==
    IF conn[c].id_tag # None THEN send_start_transaction(conn, idx, c) ELSE Returned(conn, idx)

\* on_remote_stop_transaction
on_remote_stop_transaction(idx, transaction_id) ==
    IF transaction_id \in DOMAIN idx THEN "Accepted" ELSE "Rejected"

\* after_remote_stop_transaction
after_remote_stop_transaction(conn, idx, transaction_id) ==
    IF transaction_id \in DOMAIN idx
    THEN send_stop_transaction(conn, idx, idx[transaction_id], None)
    ELSE Returned(conn, idx)

\* after_change_availability; the method's return value is .ret
after_change_availability(conn, idx, c, type) ==
    LET u == change_availability(conn[c], type)
        c1 == SetC(conn, c, u.conn)
    IN  IF u.ret
        THEN Res(c1, idx, StatusNotification(c1, c), "done", "returned", NoTransaction)
        ELSE Returned(c1, idx)

\* on_set_charging_profile: the reply and the connector map
on_set_charging_profile(conn, c, limit) ==
    IF ~ready_to_charge(conn[c])
    THEN [conn |-> conn, status |-> "Rejected"]
    ELSE [conn |-> SetC(conn, c, [conn[c] EXCEPT !.power_offered = limit]),
          status |-> "Accepted"]

\* after_set_charging_profile that updates the status without notifying it
after_set_charging_profile_silent(conn, idx, c) ==
    Returned(SetC(conn, c, update_status(conn[c]).conn), idx)

\* after_set_charging_profile
after_set_charging_profile(conn, idx, c) ==
    LET u == update_status(conn[c])
        c1 == SetC(conn, c, u.conn)
    IN  IF u.ret
        THEN Res(c1, idx, StatusNotification(c1, c), "done", "returned", NoTransaction)
        ELSE Returned(conn, idx)


\* A step of a session plan, step[0] with its arguments read
PlanStep(op, cid, rfid, limit) ==
    [op |-> op, cid |-> cid, rfid |-> rfid, limit |-> limit, stop_tx |-> TRUE, reason |-> None]

\* execute_session_plan: one step of the plan, up to its first await
session_step(conn, idx, st) ==
    CASE st.op = "plugin" -> plug_in(conn, idx, st.cid, st.rfid)
      [] st.op = "stop" -> send_stop_transaction(conn, idx, st.cid, st.reason)
      [] st.op = "unplug" -> unplug(conn, idx, st.cid, st.stop_tx)
      [] st.op = "charge" ->
            after_set_charging_profile(on_set_charging_profile(conn, st.cid, st.limit).conn,
                                       idx, st.cid)
      [] st.op = "wait" -> Res(conn, idx, NoMsg, "wait", "running", NoTransaction)
      [] st.op = "disconnect" -> Res(conn, idx, NoMsg, "close", "running", NoTransaction)
      [] OTHER -> Returned(conn, idx)

\* execute_session_plan from step i of `program` (the steps of the plan and the
\* disconnect that follows them) on, up to the next await: a step that returns
\* without awaiting is followed at once by the next, a step that raises ends the
\* plan, past the last step the function returns.  session_continue takes up the
\* result r of a segment of step i.
RECURSIVE execute_session_plan(_, _, _, _)
session_continue(r, program, i) ==
    IF r.pc = "done" /\ r.outcome = "returned"
    THEN IF r.msg = NoMsg
         THEN execute_session_plan(r.conn, r.idx, program, i + 1)
         ELSE [step |-> i, r |-> [r EXCEPT !.pc = "next", !.outcome = "running"]]
    ELSE [step |-> i, r |-> r]

execute_session_plan(conn, idx, program, i) ==
    IF i > Len(program)
    THEN [step |-> i, r |-> Returned(conn, idx)]
    ELSE session_continue(session_step(conn, idx, program[i]), program, i)


\* ----------------------------------------------------------------- actions
Suspended(pc) == {f \in BagToSet(tasks) : f.pc = pc}

\* A new request is taken while fewer than max_tasks coroutines are suspended.
Free == BagCardinality(tasks) < max_tasks

\* A segment that ends in a call while the connection is not open: the call
\* raises, nothing is sent and the coroutine ends there.
Sent(link, r) ==
    IF r.msg # NoMsg /\ link # "open"
    THEN [r EXCEPT !.msg = NoMsg, !.pc = "done", !.outcome = "ConnectionClosed"]
    ELSE r

\* The receiver task runs: calls of the CSMS are served, replies delivered.
Receiving == "receiver" \in running

\* One segment of a coroutine on a connection in state `link`: `old` is the suspended frame it resumes (none when
\* `new`), `base` the frame with the arguments, r the segment's result, reply the
\* reply consumed (or, in an on-hook, given), ret what the Connector method returned.
StepOn(link, old, base, new, r0, seg, reply, ret) ==
    LET r == Sent(link, r0)
        log2 == base.log \o (IF reply = None THEN <<>> ELSE <<reply>>)
                         \o (IF r.msg = NoMsg THEN <<>> ELSE <<r.msg.type>>)
        rest == IF new THEN tasks ELSE tasks (-) SetToBag({old})
        next == [base EXCEPT !.pc = r.pc, !.tx = r.tx, !.log = log2]
    IN  /\ connectors' = r.conn
        /\ transaction_connector' = r.idx
        /\ out' = r.msg
        /\ tasks' = IF r.pc = "done" THEN rest ELSE rest (+) SetToBag({next})
        /\ ev' = [NoEvent EXCEPT
                    !.op = base.op, !.seg = seg, !.cid = base.cid, !.rfid = base.rfid,
                    !.stop_tx = base.stop_tx, !.limit = base.limit,
                    !.transaction_id = base.transaction_id, !.type = base.type,
                    !.reply = reply, !.outcome = r.outcome, !.ret = ret, !.log = log2,
                    !.step = base.step]

Step(old, base, new, r, seg, reply, ret) ==
    StepOn(connection, old, base, new, r, seg, reply, ret)

Begin(base, r, reply, ret) == Free /\ Step(base, base, TRUE, r, "call", reply, ret)
Resume(f, r, reply) == Step(f, f, FALSE, r, f.pc, reply, FALSE)

Settings == <<tx_start_charge, max_tasks, meter_pos, heartbeat_pos, configuration>>
Lifecycle == <<connection, running, self_tasks, connected>>
Station == <<Settings, Lifecycle>>

\* The CSMS numbers transactions itself and gives every transaction an id of its
\* own: the id in a StartTransaction reply is one the station holds nowhere (an
\* id the station has forgotten altogether is as good as a new one).
HeldIds ==
    (DOMAIN transaction_connector)
    \cup {connectors[c].transaction_id : c \in DOMAIN connectors}
    \cup {connectors[c].pending_stop_tx.transaction_id : c \in DOMAIN connectors}
    \cup {f.tx : f \in BagToSet(tasks)}
FreshIds == TransactionIds \ HeldIds
NextId == CHOOSE t \in FreshIds : \A u \in FreshIds : t <= u

\* --- operator requests (app.py endpoints, session.py steps)
PlugIn(c, rfid) ==
    /\ Begin(Frame("plug_in", c, rfid, FALSE, NoTransaction, 0, None),
             plug_in(connectors, transaction_connector, c, rfid), None, FALSE)
    /\ UNCHANGED Station

PlugInNotified ==
    \E f \in Suspended("pi_sn") :
        /\ Receiving
        /\ Resume(f, plug_in_rest(connectors, transaction_connector, f.cid, f.rfid), None)
        /\ UNCHANGED Station

SendAuthStart(c, rfid) ==
    /\ Begin(Frame("send_auth_start", c, rfid, FALSE, NoTransaction, 0, None),
             send_auth_start(connectors, transaction_connector, c, rfid), None, FALSE)
    /\ UNCHANGED Station

AuthorizeReply(reply) ==
    \E f \in Suspended("auth") :
        /\ Receiving
        /\ Resume(f, send_authorize_reply(connectors, transaction_connector, f.cid, f.rfid,
                                          reply), reply)
        /\ UNCHANGED Station

AuthorizeNotified ==
    \E f \in Suspended("auth_sn") :
        /\ Receiving
        /\ Resume(f, send_start_transaction(connectors, transaction_connector, f.cid), None)
        /\ UNCHANGED Station

StartTransactionReply(reply) ==
    \E f \in Suspended("start") :
        /\ Receiving
        /\ reply = "Id" => FreshIds # {}
        /\ Resume(f, send_start_transaction_reply(connectors, transaction_connector, f.cid,
                                                  reply, NextId, tx_start_charge), reply)
        /\ UNCHANGED Station

StartTransactionSlept ==
    \E f \in Suspended("start_sleep") :
        /\ Resume(f, send_start_transaction_slept(connectors, transaction_connector, f.cid),
                  None)
        /\ UNCHANGED Station

SendStopTransaction(c, reason) ==
    /\ Begin(Frame("send_stop_transaction", c, None, FALSE, NoTransaction, 0, None),
             send_stop_transaction(connectors, transaction_connector, c, reason), None, FALSE)
    /\ UNCHANGED Station

StopTransactionReply ==
    \E f \in Suspended("stop") :
        /\ Receiving
        /\ Resume(f, send_stop_transaction_reply(connectors, transaction_connector, f.cid,
                                                 f.tx, f.op), None)
        /\ UNCHANGED Station

Unplug(c, stop_tx) ==
    /\ Begin(Frame("unplug", c, None, stop_tx, NoTransaction, 0, None),
             unplug(connectors, transaction_connector, c, stop_tx), None, FALSE)
    /\ UNCHANGED Station

UnplugStopNotified ==
    \E f \in Suspended("stop_sn") :
        /\ Receiving
        /\ Resume(f, unplug_stopped(connectors, transaction_connector, f.cid), None)
        /\ UNCHANGED Station

UnplugSlept ==
    \E f \in Suspended("up_sn") :
        /\ Receiving
        /\ Resume(f, unplug_reset(connectors, transaction_connector, f.cid, f.stop_tx), None)
        /\ UNCHANGED Station

\* app.set_charging_profile: the after-hook runs only when the on-hook accepted
SetChargingProfileEndpoint(c, limit) ==
    LET on == on_set_charging_profile(connectors, c, limit)
        base == Frame("set_charging_profile", c, None, FALSE, NoTransaction, limit, None)
    IN  /\ IF on.status = "Rejected"
           THEN Begin(base, Raised(on.conn, transaction_connector, "Http409"),
                      on.status, FALSE)
           ELSE Begin(base, after_set_charging_profile(on.conn, transaction_connector, c),
                      on.status, update_status(on.conn[c]).ret)
        /\ UNCHANGED Station

\* session.execute_session_plan, step "charge": on-hook, then after-hook
SessionCharge(c, limit) ==
    LET on == on_set_charging_profile(connectors, c, limit)
        base == Frame("charge", c, None, FALSE, NoTransaction, limit, None)
    IN  /\ Begin(base, after_set_charging_profile(on.conn, transaction_connector, c),
                 on.status, update_status(on.conn[c]).ret)
        /\ UNCHANGED Station

\* --- inbound calls of the CSMS: the on-hook answers, the after-hook runs later
AfterHook(conn, tx) == Res(conn, transaction_connector, NoMsg, "after", "running", tx)

OnRemoteStartTransaction(id_tag, has_connector_id, c) ==
    LET on == on_remote_start_transaction(connectors, id_tag, has_connector_id, c)
        \* after_remote_start_transaction's parameter defaults to connector 1
        base == Frame("RemoteStartTransaction", IF has_connector_id THEN c ELSE 1, id_tag,
                      FALSE, NoTransaction, 0, None)
    IN  /\ Free
        /\ Receiving
        /\ Step(base, base, TRUE, AfterHook(on.conn, NoTransaction), "on", on.status, FALSE)
        /\ UNCHANGED Station

OnRemoteStopTransaction(transaction_id) ==
    LET base == [Frame("RemoteStopTransaction", 0, None, FALSE, transaction_id, 0, None)
                    EXCEPT !.transaction_id = transaction_id]
    IN  /\ Free
        /\ Receiving
        /\ Step(base, base, TRUE, AfterHook(connectors, transaction_id), "on",
                on_remote_stop_transaction(transaction_connector, transaction_id), FALSE)
        /\ UNCHANGED Station

OnChangeAvailability(c, type) ==
    LET base == Frame("ChangeAvailability", c, None, FALSE, NoTransaction, 0, type)
    IN  /\ Free
        /\ Receiving
        /\ Step(base, base, TRUE, AfterHook(connectors, NoTransaction), "on", "Accepted",
                FALSE)
        /\ UNCHANGED Station

OnSetChargingProfile(c, limit) ==
    LET on == on_set_charging_profile(connectors, c, limit)
        base == Frame("SetChargingProfile", c, None, FALSE, NoTransaction, limit, None)
    IN  /\ Free
        /\ Receiving
        /\ Step(base, base, TRUE, AfterHook(on.conn, NoTransaction), "on", on.status, FALSE)
        /\ UNCHANGED Station

\* GetConfiguration and ChangeConfiguration have no after-hook: the on-hook is the
\* whole handler and never suspends.
OnGetConfiguration(keys) ==
    /\ Receiving
    /\ out' = NoMsg
    /\ ev' = [NoEvent EXCEPT !.op = "GetConfiguration", !.seg = "on", !.keys = keys,
                             !.payload = on_get_configuration(configuration, keys),
                             !.outcome = "returned"]
    /\ UNCHANGED <<connectors, transaction_connector, tasks, Station>>

OnChangeConfiguration(key, value) ==
    LET on == on_change_configuration(configuration, key, value)
    IN  /\ Receiving
        /\ configuration' = on.configuration
        /\ out' = NoMsg
        /\ ev' = [NoEvent EXCEPT !.op = "ChangeConfiguration", !.seg = "on", !.key = key,
                                 !.value = value, !.reply = on.status,
                                 !.outcome = "returned", !.log = <<on.status>>]
        /\ UNCHANGED <<connectors, transaction_connector, tasks, tx_start_charge, max_tasks,
                       meter_pos, heartbeat_pos, Lifecycle>>

AfterRemoteStartTransaction ==
    \E f \in Suspended("after") :
        /\ f.op = "RemoteStartTransaction"
        /\ Resume(f, after_remote_start_transaction(connectors, transaction_connector, f.cid),
                  None)
        /\ UNCHANGED Station

AfterRemoteStopTransaction ==
    \E f \in Suspended("after") :
        /\ f.op = "RemoteStopTransaction"
        /\ Step(f, [f EXCEPT !.cid = IF f.tx \in DOMAIN transaction_connector
                                     THEN transaction_connector[f.tx] ELSE 0],
                FALSE, after_remote_stop_transaction(connectors, transaction_connector, f.tx),
                "after", None, FALSE)
        /\ UNCHANGED Station

AfterChangeAvailability ==
    \E f \in Suspended("after") :
        /\ f.op = "ChangeAvailability"
        /\ Step(f, f, FALSE,
                after_change_availability(connectors, transaction_connector, f.cid, f.type),
                "after", None, change_availability(connectors[f.cid], f.type).ret)
        /\ UNCHANGED Station

AfterSetChargingProfile ==
    \E f \in Suspended("after") :
        /\ f.op = "SetChargingProfile"
        /\ Step(f, f, FALSE,
                after_set_charging_profile(connectors, transaction_connector, f.cid),
                "after", None, update_status(connectors[f.cid]).ret)
        /\ UNCHANGED Station

\* --- meter_value_loop: one segment visits the connectors from meter_pos on, up
\* to the first that is Charging, consumes its energy and awaits its MeterValues
\* call; past the last connector it reads MeterValueSampleInterval and sleeps, to
\* start over when it wakes (after the call of the last connector that is part
\* of the step of the call); an interval int() cannot read ends the loop.
Abs(n) == IF n < 0 THEN -n ELSE n

MeterValueLoop ==
    LET charging == {c \in DOMAIN connectors :
                        c >= meter_pos /\ connectors[c].status = "Charging"}
        c == CHOOSE x \in charging : \A y \in charging : x <= y
        k == consume_energy(connectors[c])
        last == charging = {} \/ c + 1 \notin DOMAIN connectors
        interval == int(configuration["MeterValueSampleInterval"])
        event == [NoEvent EXCEPT !.op = "meter_value_loop", !.seg = "visit",
                                 !.outcome = IF last /\ ~interval.ok
                                             THEN interval.error ELSE "running",
                                 !.sleep = IF last /\ interval.ok THEN interval.int ELSE 0]
    IN  /\ "meter" \in running
        /\ IF charging = {}
           THEN /\ out' = NoMsg
                /\ ev' = event
                /\ UNCHANGED connectors
           ELSE /\ Abs(k.energy_import_register) <= MaxEnergy * Half
                /\ connectors' = SetC(connectors, c, k)
                /\ out' = MeterValuesPayload(connectors', c)
                /\ ev' = [event EXCEPT !.cid = c, !.log = <<"MeterValues">>]
        /\ meter_pos' = IF last THEN 1 ELSE c + 1
        /\ running' = IF last /\ ~interval.ok THEN running \ {"meter"} ELSE running
        /\ UNCHANGED <<transaction_connector, tx_start_charge, max_tasks, tasks, heartbeat_pos,
                       configuration, connection, self_tasks, connected>>

\* --- boot_up, send_heartbeat, disconnect
BootReplies == {"Absent", "Accepted", "Pending", "Rejected"}

\* resp.interval of a BootNotification reply: an integer number of seconds
BootIntervals == {PyInt(300)}

BootNotificationPayload == [NoMsg EXCEPT !.type = "BootNotification"]
HeartbeatPayload == [NoMsg EXCEPT !.type = "Heartbeat"]

\* send_boot_notification that takes a Rejected for an acceptance
send_boot_notification_reply_always(status) == TRUE

\* send_boot_notification from the reply on: its return value
send_boot_notification_reply(status) == status # "Rejected"

\* send_status_notification(connector_id=0) that stops after a connector
notify_next_none(conn, c) == 0

\* send_status_notification(connector_id=0): the connector to notify after c,
\* 0 after the last
notify_next(conn, c) == IF c + 1 \in DOMAIN conn THEN c + 1 ELSE 0

Booting == \E f \in BagToSet(tasks) : f.op = "boot_up"

\* get_fcs has returned the station: boot_up returned, true or false (an
\* exception of boot_up ends get_fcs, and the receiver is then left running)
Booted == connection # "none" /\ ~Booting /\ (connected \/ ~Receiving)

\* boot_up, up to the await of BootNotification: the connection is made (or
\* refused) and the receiver task created
BootUp(ok) ==
    LET base == Frame("boot_up", 0, None, FALSE, NoTransaction, 0, None)
    IN  /\ connection = "none"
        /\ ~Booting
        /\ Free
        /\ IF ok
           THEN /\ StepOn("open", base, base, TRUE,
                          Res(connectors, transaction_connector, BootNotificationPayload,
                              "boot", "running", NoTransaction),
                          "call", None, FALSE)
                /\ connection' = "open"
                /\ running' = running \cup {"receiver"}
           ELSE /\ Step(base, base, TRUE, Raised(connectors, transaction_connector, "Exception"),
                        "call", None, FALSE)
                /\ UNCHANGED <<connection, running>>
        /\ UNCHANGED <<self_tasks, connected, Settings>>

\* boot_up from the await of a call on: StatusNotification for the connector
\* after `last` or, past the last connector, the two loops are started, the
\* tasks recorded, connected set and true returned
boot_up_notify(f, last, seg, reply) ==
    LET c == notify_next(connectors, last)
    IN  IF c # 0
        THEN /\ Step(f, [f EXCEPT !.cid = c], FALSE,
                     Res(connectors, transaction_connector, StatusNotification(connectors, c),
                         "burst", "running", NoTransaction),
                     seg, reply, FALSE)
             /\ UNCHANGED <<running, self_tasks, connected>>
        ELSE /\ Step(f, f, FALSE, Returned(connectors, transaction_connector), seg, reply, TRUE)
             /\ running' = running \cup {"heartbeat", "meter"}
             /\ self_tasks' = BackgroundTasks
             /\ connected' = TRUE

\* boot_up from the reply to BootNotification to the first StatusNotification;
\* interval is resp.interval, which send_boot_notification stores as it is
BootNotificationReply(status, interval) ==
    \E f \in Suspended("boot") :
        /\ Receiving
        /\ IF status = "Absent"
           THEN /\ Resume(f, Raised(connectors, transaction_connector, "AttributeError"), status)
                /\ UNCHANGED <<running, self_tasks, connected, configuration>>
           ELSE IF ~send_boot_notification_reply(status)
           THEN /\ Resume(f, Returned(connectors, transaction_connector), status)
                /\ running' = running \ {"receiver"}
                /\ UNCHANGED <<self_tasks, connected, configuration>>
           ELSE /\ boot_up_notify(f, 0, "boot", status)
                /\ configuration' = [configuration EXCEPT !["HeartbeatInterval"] = interval]
        /\ UNCHANGED <<connection, tx_start_charge, max_tasks, meter_pos, heartbeat_pos>>

\* boot_up after a StatusNotification of the burst: the next one, or the end
BootStatusNotified ==
    \E f \in Suspended("burst") :
        /\ Receiving
        /\ boot_up_notify(f, f.cid, "burst", None)
        /\ UNCHANGED <<connection, Settings>>

\* send_heartbeat, woken from a sleep: the Heartbeat call
SendHeartbeat ==
    /\ "heartbeat" \in running
    /\ heartbeat_pos = "sleep"
    /\ heartbeat_pos' = "call"
    /\ out' = HeartbeatPayload
    /\ ev' = [NoEvent EXCEPT !.op = "send_heartbeat", !.seg = "beat", !.outcome = "running",
                             !.log = <<"Heartbeat">>]
    /\ UNCHANGED <<connectors, transaction_connector, tasks, tx_start_charge, max_tasks,
                   meter_pos, configuration, Lifecycle>>

\* send_heartbeat after the reply: HeartbeatInterval is read and the sleep begun;
\* an interval int() cannot read ends the task
HeartbeatReply ==
    LET interval == int(configuration["HeartbeatInterval"])
    IN  /\ "heartbeat" \in running
        /\ heartbeat_pos = "call"
        /\ Receiving
        /\ heartbeat_pos' = "sleep"
        /\ out' = NoMsg
        /\ IF interval.ok
           THEN /\ ev' = [NoEvent EXCEPT !.op = "send_heartbeat", !.seg = "reply",
                                         !.outcome = "running", !.sleep = interval.int]
                /\ UNCHANGED running
           ELSE /\ ev' = [NoEvent EXCEPT !.op = "send_heartbeat", !.seg = "reply",
                                         !.outcome = interval.error]
                /\ running' = running \ {"heartbeat"}
        /\ UNCHANGED <<connectors, transaction_connector, tasks, tx_start_charge, max_tasks,
                       meter_pos, configuration, connection, self_tasks, connected>>

\* disconnect, up to the await of close(): FCS is in the hands of the operator
\* once get_fcs has returned
Disconnect ==
    LET base == Frame("disconnect", 0, None, FALSE, NoTransaction, 0, None)
    IN  /\ Booted
        /\ Begin(base, Res(connectors, transaction_connector, NoMsg, "close", "running",
                           NoTransaction), None, FALSE)
        /\ running' = running \ self_tasks
        /\ self_tasks' = {}
        /\ connection' = "closed"
        /\ heartbeat_pos' = "sleep"
        /\ UNCHANGED <<connected, tx_start_charge, max_tasks, meter_pos, configuration>>

\* disconnect after close(); a receiver that was not cancelled ends with the
\* connection
DisconnectClosed ==
    \E f \in Suspended("close") :
        /\ Resume(f, Returned(connectors, transaction_connector), None)
        /\ running' = running \ {"receiver"}
        /\ connected' = FALSE
        /\ UNCHANGED <<connection, self_tasks, Settings>>

\* stop_fcs, up to its first await
StopFcs ==
    LET s == stop_fcs(connectors, transaction_connector, 1)
    IN  /\ Begin(Frame("stop_fcs", s.cid, None, TRUE, NoTransaction, 0, None), s.r, None, FALSE)
        /\ UNCHANGED Station

\* stop_fcs resumed inside unplug, or between two of them
StopFcsUnplug ==
    \E f \in BagToSet(tasks) :
        /\ f.op = "stop_fcs"
        /\ f.pc \in {"fcs_stop", "fcs_stop_sn", "fcs_up_sn", "fcs_next"}
        /\ Receiving
        /\ LET s == CASE f.pc = "fcs_stop" ->
                            [cid |-> f.cid,
                             r |-> stop_fcs_unplug(send_stop_transaction_reply(
                                       connectors, transaction_connector, f.cid, f.tx,
                                       "unplug"))]
                       [] f.pc = "fcs_stop_sn" ->
                            [cid |-> f.cid,
                             r |-> stop_fcs_unplug(unplug_stopped(
                                       connectors, transaction_connector, f.cid))]
                       [] f.pc = "fcs_up_sn" ->
                            [cid |-> f.cid,
                             r |-> stop_fcs_unplug(unplug_reset(
                                       connectors, transaction_connector, f.cid, TRUE))]
                       [] f.pc = "fcs_next" ->
                            stop_fcs(connectors, transaction_connector, f.cid + 1)
           IN  Step(f, [f EXCEPT !.cid = s.cid], FALSE, s.r, f.pc, None, FALSE)
        /\ UNCHANGED Station

\* stop_fcs after its sleep: disconnect, up to close(), when still connected
StopFcsSlept ==
    \E f \in Suspended("fcs_sleep") :
        IF connected
        THEN /\ Resume(f, Res(connectors, transaction_connector, NoMsg, "fcs_close", "running",
                              NoTransaction), None)
             /\ running' = running \ self_tasks
             /\ self_tasks' = {}
             /\ connection' = "closed"
             /\ heartbeat_pos' = "sleep"
             /\ UNCHANGED <<connected, tx_start_charge, max_tasks, meter_pos, configuration>>
        ELSE /\ Resume(f, Returned(connectors, transaction_connector), None)
             /\ UNCHANGED Station

\* stop_fcs after close(): disconnect clears connected and stop_fcs returns
StopFcsClosed ==
    \E f \in Suspended("fcs_close") :
        /\ Resume(f, Returned(connectors, transaction_connector), None)
        /\ running' = running \ {"receiver"}
        /\ connected' = FALSE
        /\ UNCHANGED <<connection, self_tasks, Settings>>

\* --- execute_session_plan
\* The plan [wait, plugin(1, rfid), charge(1, 500), wait, stop(1), unplug(1),
\* disconnect] and the disconnect execute_session_plan ends with
SessionPlan ==
    << PlanStep("wait", 0, None, 0), PlanStep("plugin", 1, "abc", 0),
       PlanStep("charge", 1, None, W(500)), PlanStep("wait", 0, None, 0),
       PlanStep("stop", 1, None, 0), PlanStep("unplug", 1, None, 0),
       PlanStep("disconnect", 0, None, 0) >>
SessionProgram == Append(SessionPlan, PlanStep("disconnect", 0, None, 0))

\* The frame of execute_session_plan in step i
SessionFrame(f, i) ==
    IF i \in DOMAIN SessionProgram
    THEN [f EXCEPT !.step = i, !.cid = SessionProgram[i].cid, !.rfid = SessionProgram[i].rfid,
                   !.stop_tx = SessionProgram[i].stop_tx, !.limit = SessionProgram[i].limit]
    ELSE [f EXCEPT !.step = i]

\* execute_session_plan resumed: r0 is what the operation it awaited leaves behind.
\* A disconnect that resumes after close() clears connected; a disconnect that
\* begins cancels the tasks and closes the connection.
session_turn(f, r0, reply) ==
    LET s == session_continue(r0, SessionProgram, f.step)
        closed == f.pc = "close"
        closes == s.r.pc = "close"
    IN  /\ Step(f, SessionFrame(f, s.step), FALSE, s.r, f.pc, reply,
                s.r.pc = "done" /\ s.r.outcome = "returned")
        /\ connected' = IF closed THEN FALSE ELSE connected
        /\ running' = (IF closed THEN running \ {"receiver"} ELSE running)
                          \ (IF closes THEN self_tasks ELSE {})
        /\ self_tasks' = IF closes THEN {} ELSE self_tasks
        /\ connection' = IF closes THEN "closed" ELSE connection
        /\ heartbeat_pos' = IF closes THEN "sleep" ELSE heartbeat_pos
        /\ UNCHANGED <<tx_start_charge, max_tasks, meter_pos, configuration>>

\* a step of the plan is over: its sleep, its last call, or close()
SessionStep ==
    \E f \in BagToSet(tasks) :
        /\ f.op = "execute_session_plan"
        /\ f.pc \in {"wait", "next", "close"}
        /\ f.pc = "next" => Receiving
        /\ session_turn(f, Returned(connectors, transaction_connector), None)

\* the reply to Authorize or to StartTransaction
SessionReply(reply) ==
    \E f \in BagToSet(tasks) :
        /\ f.op = "execute_session_plan"
        /\ Receiving
        /\ \/ /\ f.pc = "auth"
              /\ reply \in AuthorizeReplies
              /\ session_turn(f, send_authorize_reply(connectors, transaction_connector,
                                                      f.cid, f.rfid, reply), reply)
           \/ /\ f.pc = "start"
              /\ reply \in StartReplies
              /\ reply = "Id" => FreshIds # {}
              /\ session_turn(f, send_start_transaction_reply(
                                     connectors, transaction_connector, f.cid, reply, NextId,
                                     tx_start_charge), reply)

\* the other awaits inside plug_in, send_stop_transaction and unplug
SessionResumed ==
    \E f \in BagToSet(tasks) :
        /\ f.op = "execute_session_plan"
        /\ f.pc \in {"pi_sn", "auth_sn", "start_sleep", "stop", "stop_sn", "up_sn"}
        /\ f.pc # "start_sleep" => Receiving
        /\ session_turn(f,
              CASE f.pc = "pi_sn" ->
                      plug_in_rest(connectors, transaction_connector, f.cid, f.rfid)
                [] f.pc = "auth_sn" ->
                      send_start_transaction(connectors, transaction_connector, f.cid)
                [] f.pc = "start_sleep" ->
                      send_start_transaction_slept(connectors, transaction_connector, f.cid)
                [] f.pc = "stop" ->
                      send_stop_transaction_reply(
                          connectors, transaction_connector, f.cid, f.tx,
                          IF SessionProgram[f.step].op = "unplug" THEN "unplug"
                          ELSE "send_stop_transaction")
                [] f.pc = "stop_sn" ->
                      unplug_stopped(connectors, transaction_connector, f.cid)
                [] f.pc = "up_sn" ->
                      unplug_reset(connectors, transaction_connector, f.cid, f.stop_tx),
              None)

\* --- get_fcs(settings): the station is built, booted and quick-started in one
\* coroutine.  Its frame carries the settings read later: type is "quick_start"
\* when settings.quick_start is set, rfid and cid are quick_start_rfid and
\* quick_start_connector (None and 0 when not set), limit is
\* quick_start_charging.  step is the connector boot_up's burst of
\* StatusNotifications has reached.

\* quick_start_fcs after plug_in has returned: the `if settings.quick_start_charging`
quick_start_charge(conn, idx, quick_start_charging) ==
    IF quick_start_charging # 0
    THEN Res(conn, idx, NoMsg, "charge_sleep", "running", NoTransaction)
    ELSE Returned(conn, idx)

\* quick_start_fcs while plug_in runs: r is what the segment of plug_in leaves;
\* when plug_in is over quick_start_fcs goes on, once the reply to the last call
\* of plug_in has come
quick_start_continue(r, quick_start_charging) ==
    IF r.pc = "done" /\ r.outcome = "returned"
    THEN IF r.msg = NoMsg
         THEN quick_start_charge(r.conn, r.idx, quick_start_charging)
         ELSE [r EXCEPT !.pc = "next", !.outcome = "running"]
    ELSE r

\* quick_start_fcs as get_fcs calls it when boot_up has returned, whatever it
\* returned: nothing without the three settings, else the sleep before plug_in
quick_start_fcs(conn, idx, quick_start, quick_start_rfid, quick_start_connector) ==
    IF ~quick_start \/ quick_start_rfid = None \/ quick_start_connector = 0
    THEN Returned(conn, idx)
    ELSE Res(conn, idx, NoMsg, "quick_sleep", "running", NoTransaction)

\* get_fcs up to the await of BootNotification inside boot_up.  The station is
\* constructed with tx_start_charge=settings.quick_start_charging: a settings
\* object without that attribute (settings.Settings has quick_start_charging_limit
\* instead) ends get_fcs there with an AttributeError.  Then the connection is
\* made (or refused) and the receiver task created.
GetFcs(quick_start, quick_start_rfid, quick_start_connector, quick_start_charging, has_quick_start_charging, ok) ==
    LET base == Frame("get_fcs", quick_start_connector, quick_start_rfid, FALSE,
                      NoTransaction, quick_start_charging,
                      IF quick_start THEN "quick_start" ELSE None)
    IN  /\ ev = NoEvent
        /\ connection = "none"
        /\ Free
        /\ IF ~has_quick_start_charging
           THEN /\ quick_start_charging = 0
                /\ Step(base, base, TRUE,
                        Raised(connectors, transaction_connector, "AttributeError"),
                        "call", None, FALSE)
                /\ UNCHANGED <<connection, running, tx_start_charge>>
           ELSE IF ok
           THEN /\ StepOn("open", base, base, TRUE,
                          Res(connectors, transaction_connector, BootNotificationPayload,
                              "fcs_boot", "running", NoTransaction),
                          "call", None, FALSE)
                /\ connection' = "open"
                /\ running' = running \cup {"receiver"}
                /\ tx_start_charge' = quick_start_charging
           ELSE /\ Step(base, base, TRUE, Raised(connectors, transaction_connector, "Exception"),
                        "call", None, FALSE)
                /\ tx_start_charge' = quick_start_charging
                /\ UNCHANGED <<connection, running>>
        /\ UNCHANGED <<self_tasks, connected, max_tasks, meter_pos, heartbeat_pos,
                       configuration>>

\* get_fcs from an await inside boot_up on: the StatusNotification of the next
\* connector or, past the last one, the loops are started, boot_up returns true
\* and quick_start_fcs is called
get_fcs_notify(f, last, seg, reply) ==
    LET c == notify_next(connectors, last)
    IN  IF c # 0
        THEN /\ Step(f, [f EXCEPT !.step = c], FALSE,
                     Res(connectors, transaction_connector, StatusNotification(connectors, c),
                         "fcs_burst", "running", NoTransaction),
                     seg, reply, FALSE)
             /\ UNCHANGED <<running, self_tasks, connected>>
        ELSE /\ Step(f, f, FALSE,
                     quick_start_fcs(connectors, transaction_connector,
                                     f.type = "quick_start", f.rfid, f.cid),
                     seg, reply, TRUE)
             /\ running' = running \cup {"heartbeat", "meter"}
             /\ self_tasks' = BackgroundTasks
             /\ connected' = TRUE

\* get_fcs from the reply to BootNotification on: a reply that is not accepted
\* cancels the receiver, boot_up returns false, and get_fcs calls quick_start_fcs
GetFcsBootReply(status, interval) ==
    \E f \in Suspended("fcs_boot") :
        /\ Receiving
        /\ IF status = "Absent"
           THEN /\ Resume(f, Raised(connectors, transaction_connector, "AttributeError"), status)
                /\ UNCHANGED <<running, self_tasks, connected, configuration>>
           ELSE IF ~send_boot_notification_reply(status)
           THEN /\ Resume(f, quick_start_fcs(connectors, transaction_connector,
                                             f.type = "quick_start", f.rfid, f.cid), status)
                /\ running' = running \ {"receiver"}
                /\ UNCHANGED <<self_tasks, connected, configuration>>
           ELSE /\ get_fcs_notify(f, 0, "fcs_boot", status)
                /\ configuration' = [configuration EXCEPT !["HeartbeatInterval"] = interval]
        /\ UNCHANGED <<connection, tx_start_charge, max_tasks, meter_pos, heartbeat_pos>>

GetFcsStatusNotified ==
    \E f \in Suspended("fcs_burst") :
        /\ Receiving
        /\ get_fcs_notify(f, f.step, "fcs_burst", None)
        /\ UNCHANGED <<connection, Settings>>

\* quick_start_fcs after a sleep: plug_in, or the charging profile and the end
GetFcsQuickStart ==
    \E f \in BagToSet(tasks) :
        /\ f.op = "get_fcs"
        /\ f.pc \in {"quick_sleep", "charge_sleep"}
        /\ IF f.pc = "quick_sleep"
           THEN Resume(f, quick_start_continue(
                              plug_in(connectors, transaction_connector, f.cid, f.rfid),
                              f.limit), None)
           ELSE Resume(f, after_set_charging_profile(
                              on_set_charging_profile(connectors, f.cid, f.limit).conn,
                              transaction_connector, f.cid),
                       on_set_charging_profile(connectors, f.cid, f.limit).status)
        /\ UNCHANGED Station

\* quick_start_fcs inside plug_in: the reply to Authorize or to StartTransaction
GetFcsReply(reply) ==
    \E f \in BagToSet(tasks) :
        /\ f.op = "get_fcs"
        /\ Receiving
        /\ \/ /\ f.pc = "auth"
              /\ reply \in AuthorizeReplies
              /\ Resume(f, quick_start_continue(
                               send_authorize_reply(connectors, transaction_connector,
                                                    f.cid, f.rfid, reply), f.limit), reply)
           \/ /\ f.pc = "start"
              /\ reply \in StartReplies
              /\ reply = "Id" => FreshIds # {}
              /\ Resume(f, quick_start_continue(
                               send_start_transaction_reply(
                                   connectors, transaction_connector, f.cid, reply, NextId,
                                   tx_start_charge), f.limit), reply)
        /\ UNCHANGED Station

\* quick_start_fcs inside plug_in: the replies to its StatusNotifications and the
\* sleep of send_start_transaction
GetFcsResumed ==
    \E f \in BagToSet(tasks) :
        /\ f.op = "get_fcs"
        /\ f.pc \in {"pi_sn", "auth_sn", "start_sleep", "next"}
        /\ f.pc # "start_sleep" => Receiving
        /\ Resume(f, quick_start_continue(
              CASE f.pc = "pi_sn" ->
                      plug_in_rest(connectors, transaction_connector, f.cid, f.rfid)
                [] f.pc = "auth_sn" ->
                      send_start_transaction(connectors, transaction_connector, f.cid)
                [] f.pc = "start_sleep" ->
                      send_start_transaction_slept(connectors, transaction_connector, f.cid)
                [] f.pc = "next" ->
                      Returned(connectors, transaction_connector),
              f.limit), None)
        /\ UNCHANGED Station

\* ------------------------------------------------------------ specification
\* The station as FakeChargingStation.__init__ builds it with its defaults (one
\* connector, no tx_start_charge), booted, its meter-value task asleep.  Requests
\* are served one at a time; the meter-value loop runs between their segments.
\* The CSMS sends every limit but -0.5 W, the endpoint the limits 0 and -1 W, a
\* session plan charges with 0.5 W, and every StartTransaction gets a reply.
Init ==
    /\ connectors = [c \in 1..1 |-> NewConnector]
    /\ transaction_connector = EmptyIndex
    /\ tx_start_charge = 0
    /\ max_tasks = 1
    /\ tasks = EmptyBag
    /\ meter_pos = 1
    /\ heartbeat_pos = "sleep"
    /\ configuration = NewConfiguration(Cardinality(DOMAIN connectors))
    /\ connection = "open"
    /\ running = BackgroundTasks
    /\ self_tasks = BackgroundTasks
    /\ connected = TRUE
    /\ out = NoMsg
    /\ ev = NoEvent

Next ==
    \/ \E c \in DOMAIN connectors, rfid \in Rfids \cup {None} : PlugIn(c, rfid)
    \/ PlugInNotified
    \/ \E c \in DOMAIN connectors, rfid \in Rfids : SendAuthStart(c, rfid)
    \/ \E reply \in AuthorizeReplies : AuthorizeReply(reply)
    \/ AuthorizeNotified
    \/ \E reply \in StartReplies \ {"Absent"} : StartTransactionReply(reply)
    \/ StartTransactionSlept
    \/ \E c \in DOMAIN connectors, reason \in Reasons : SendStopTransaction(c, reason)
    \/ StopTransactionReply
    \/ \E c \in DOMAIN connectors, stop_tx \in BOOLEAN : Unplug(c, stop_tx)
    \/ UnplugStopNotified
    \/ UnplugSlept
    \/ \E c \in DOMAIN connectors, limit \in IntLimits \ {W(-2)} : SetChargingProfileEndpoint(c, limit)
    \/ \E c \in DOMAIN connectors, limit \in {Half} : SessionCharge(c, limit)
    \/ \E id_tag \in Rfids, has \in BOOLEAN, c \in DOMAIN connectors :
          OnRemoteStartTransaction(id_tag, has, c)
    \/ AfterRemoteStartTransaction
    \/ \E t \in TransactionIds : OnRemoteStopTransaction(t)
    \/ AfterRemoteStopTransaction
    \/ \E c \in DOMAIN connectors, type \in AvailabilityTypes : OnChangeAvailability(c, type)
    \/ AfterChangeAvailability
    \/ \E c \in DOMAIN connectors, limit \in Limits \ {-Half} : OnSetChargingProfile(c, limit)
    \/ AfterSetChargingProfile
    \/ MeterValueLoop

Spec == Init /\ [][Next]_vars

\* --- the Connector methods on their own: any connector state, any method
\* The transaction fields of a connector: none yet, a live transaction, a
\* stopped one; with or without the snapshot of an earlier one.
TransactionStates ==
    { [id_tag |-> None, transaction_id |-> NoTransaction, energy_import_register |-> 0,
       already_stopped |-> TRUE],
      [id_tag |-> "abc", transaction_id |-> 1, energy_import_register |-> Half,
       already_stopped |-> FALSE],
      [id_tag |-> "abc", transaction_id |-> 1, energy_import_register |-> Half,
       already_stopped |-> TRUE] }

PendingStates ==
    { NoPending,
      [set |-> TRUE, id_tag |-> "abc", transaction_id |-> MaxTx,
       energy_import_register |-> -Half] }

ConnectorStates ==
    { [NewConnector EXCEPT !.status = s, !.power_offered = p, !.plugged_in = pl,
                           !.change_to_unavailable = l,
                           !.id_tag = t.id_tag, !.transaction_id = t.transaction_id,
                           !.energy_import_register = t.energy_import_register,
                           !.already_stopped = t.already_stopped,
                           !.pending_stop_tx = pd] :
        s \in Statuses, p \in Limits, pl \in BOOLEAN, l \in BOOLEAN,
        t \in TransactionStates, pd \in PendingStates }

InitConnector ==
    /\ connectors \in [1..1 -> ConnectorStates]
    /\ transaction_connector = EmptyIndex
    /\ tx_start_charge = 0
    /\ max_tasks = 0
    /\ tasks = EmptyBag
    /\ meter_pos = 1
    /\ heartbeat_pos = "sleep"
    /\ configuration = NewConfiguration(Cardinality(DOMAIN connectors))
    /\ connection = "none"
    /\ running = {}
    /\ self_tasks = {}
    /\ connected = FALSE
    /\ out = NoMsg
    /\ ev = NoEvent

\* One call of a method of connector c: k is the connector it leaves, ret what
\* it returns; ev.log lists the calls made so far.
Call(op, c, k, ret, arg) ==
    /\ Len(ev.log) < MaxCalls
    /\ connectors' = SetC(connectors, c, k)
    /\ ev' = [NoEvent EXCEPT !.op = op, !.seg = "call", !.cid = c, !.ret = ret,
                             !.type = arg, !.outcome = "returned",
                             !.log = Append(ev.log, IF arg = None THEN op ELSE arg)]
    /\ UNCHANGED <<transaction_connector, tasks, out, Settings, Lifecycle>>

CallUpdateStatus(c) ==
    Call("update_status", c, update_status(connectors[c]).conn,
         update_status(connectors[c]).ret, None)

CallReset(c, postpone_stop_tx) ==
    Call("reset", c, reset(connectors[c], postpone_stop_tx), FALSE,
         IF postpone_stop_tx THEN "postpone_stop_tx" ELSE None)

CallChangeAvailability(c, availability_type) ==
    Call("change_availability", c, change_availability(connectors[c], availability_type).conn,
         change_availability(connectors[c], availability_type).ret, availability_type)

CallConsumeEnergy(c) ==
    Call("consume_energy", c, consume_energy(connectors[c]), FALSE, None)

NextConnector ==
    \/ \E c \in DOMAIN connectors : CallUpdateStatus(c)
    \/ \E c \in DOMAIN connectors : CallConsumeEnergy(c)
    \/ \E c \in DOMAIN connectors, postpone_stop_tx \in BOOLEAN : CallReset(c, postpone_stop_tx)
    \/ \E c \in DOMAIN connectors, availability_type \in AvailabilityTypes :
          CallChangeAvailability(c, availability_type)

SpecConnector == InitConnector /\ [][NextConnector]_vars



\* --- a station started with quick_start_charging: requests of the operator and
\* of the CSMS overlap (two coroutines at a time)
TxStartCharges == {W(-1), W(1)}

InitQuickStart ==
    /\ connectors = [c \in 1..1 |-> NewConnector]
    /\ transaction_connector = EmptyIndex
    /\ tx_start_charge \in TxStartCharges
    /\ max_tasks = 2
    /\ tasks = EmptyBag
    /\ meter_pos = 1
    /\ heartbeat_pos = "sleep"
    /\ configuration = NewConfiguration(Cardinality(DOMAIN connectors))
    /\ connection = "open"
    /\ running = BackgroundTasks
    /\ self_tasks = BackgroundTasks
    /\ connected = TRUE
    /\ out = NoMsg
    /\ ev = NoEvent

NextQuickStart ==
    \/ \E c \in DOMAIN connectors, rfid \in Rfids : PlugIn(c, rfid)
    \/ PlugInNotified
    \/ \E c \in DOMAIN connectors, rfid \in Rfids : SendAuthStart(c, rfid)
    \/ \E reply \in AuthorizeReplies : AuthorizeReply(reply)
    \/ AuthorizeNotified
    \/ \E reply \in StartReplies : StartTransactionReply(reply)
    \/ StartTransactionSlept
    \/ \E c \in DOMAIN connectors, reason \in Reasons : SendStopTransaction(c, reason)
    \/ StopTransactionReply
    \/ \E c \in DOMAIN connectors : Unplug(c, TRUE)
    \/ UnplugStopNotified
    \/ UnplugSlept
    \/ \E id_tag \in Rfids, c \in DOMAIN connectors : OnRemoteStartTransaction(id_tag, TRUE, c)
    \/ AfterRemoteStartTransaction

SpecQuickStart == InitQuickStart /\ [][NextQuickStart]_vars


\* --- the life of a station: boot, the background tasks, the calls of the CSMS
\* served meanwhile, requests of the operator after boot, disconnect
InitLifecycle ==
    /\ connectors = [c \in 1..2 |-> NewConnector]
    /\ transaction_connector = EmptyIndex
    /\ tx_start_charge = 0
    /\ max_tasks = 2
    /\ tasks = EmptyBag
    /\ meter_pos = 1
    /\ heartbeat_pos = "sleep"
    /\ configuration = NewConfiguration(Cardinality(DOMAIN connectors))
    /\ connection = "none"
    /\ running = {}
    /\ self_tasks = {}
    /\ connected = FALSE
    /\ out = NoMsg
    /\ ev = NoEvent

NextLifecycle ==
    \/ \E ok \in BOOLEAN : BootUp(ok)
    \/ \E status \in BootReplies, interval \in BootIntervals :
          BootNotificationReply(status, interval)
    \/ BootStatusNotified
    \/ SendHeartbeat
    \/ HeartbeatReply
    \/ MeterValueLoop
    \/ \E c \in DOMAIN connectors : Booted /\ PlugIn(c, None)
    \/ PlugInNotified
    \/ \E c \in DOMAIN connectors : OnSetChargingProfile(c, Half)
    \/ AfterSetChargingProfile
    \/ \E c \in DOMAIN connectors : OnRemoteStartTransaction("abc", TRUE, c)
    \/ AfterRemoteStartTransaction
    \/ \E reply \in StartReplies : StartTransactionReply(reply)
    \/ StartTransactionSlept
    \/ Disconnect
    \/ DisconnectClosed

SpecLifecycle == InitLifecycle /\ [][NextLifecycle]_vars

\* ------------------------------------------------- the configuration requests
\* A station with one connector, from construction on: it boots, its loops run,
\* the CSMS reads and changes the configuration, the station disconnects.
ConfigurationKeys == {"HeartbeatInterval", "MeterValueSampleInterval", "VendorKey"}
ConfigurationValues == {PyStr("5"), PyStr("abc")}
RequestedKeys == {NoKeys} \cup {Keys(set) : set \in SUBSET ConfigurationKeys}

InitConfiguration ==
    /\ connectors = [c \in 1..1 |-> NewConnector]
    /\ transaction_connector = EmptyIndex
    /\ tx_start_charge = 0
    /\ max_tasks = 1
    /\ tasks = EmptyBag
    /\ meter_pos = 1
    /\ heartbeat_pos = "sleep"
    /\ configuration = NewConfiguration(Cardinality(DOMAIN connectors))
    /\ connection = "none"
    /\ running = {}
    /\ self_tasks = {}
    /\ connected = FALSE
    /\ out = NoMsg
    /\ ev = NoEvent

NextConfiguration ==
    \/ \E ok \in BOOLEAN : BootUp(ok)
    \/ \E status \in BootReplies, interval \in BootIntervals :
          BootNotificationReply(status, interval)
    \/ BootStatusNotified
    \/ SendHeartbeat
    \/ HeartbeatReply
    \/ MeterValueLoop
    \/ \E keys \in RequestedKeys : OnGetConfiguration(keys)
    \/ \E key \in ConfigurationKeys, value \in ConfigurationValues :
          OnChangeConfiguration(key, value)
    \/ Disconnect
    \/ DisconnectClosed

SpecConfiguration == InitConfiguration /\ [][NextConfiguration]_vars

\* ------------------------------------------------------------ the shutdown
\* A booted station with two connectors whose operator plugs in, unplugs and
\* disconnects, one request at a time, against a CSMS that answers every call;
\* at any moment the application shuts down and runs stop_fcs, after which it
\* takes no request any more.
Stopping == \E f \in BagToSet(tasks) : f.op = "stop_fcs"
Stopped == ev.op = "stop_fcs" /\ ~Stopping

InitStop ==
    /\ connectors = [c \in 1..2 |-> NewConnector]
    /\ transaction_connector = EmptyIndex
    /\ tx_start_charge = 0
    /\ max_tasks = 1
    /\ tasks = EmptyBag
    /\ meter_pos = 1
    /\ heartbeat_pos = "sleep"
    /\ configuration = NewConfiguration(Cardinality(DOMAIN connectors))
    /\ connection = "open"
    /\ running = BackgroundTasks
    /\ self_tasks = BackgroundTasks
    /\ connected = TRUE
    /\ out = NoMsg
    /\ ev = NoEvent

NextStop ==
    \/ \E c \in DOMAIN connectors, rfid \in Rfids \cup {None} : ~Stopped /\ PlugIn(c, rfid)
    \/ \E c \in DOMAIN connectors, stop_tx \in BOOLEAN : ~Stopped /\ Unplug(c, stop_tx)
    \/ ~Stopped /\ Disconnect
    \/ ~Stopped /\ StopFcs
    \/ PlugInNotified
    \/ AuthorizeReply("Accepted")
    \/ StartTransactionReply("Id")
    \/ StartTransactionSlept
    \/ StopTransactionReply
    \/ UnplugStopNotified
    \/ UnplugSlept
    \/ DisconnectClosed
    \/ StopFcsUnplug
    \/ StopFcsSlept
    \/ StopFcsClosed

SpecStop == InitStop /\ [][NextStop]_vars

\* ------------------------------------------------------ overlapping requests
\* A booted station with one connector whose operator and CSMS let two requests
\* overlap: while one coroutine awaits a reply or sleeps, another request is
\* taken.  The CSMS accepts every authorization and gives every transaction an
\* id.
InitOverlap ==
    /\ connectors = [c \in 1..1 |-> NewConnector]
    /\ transaction_connector = EmptyIndex
    /\ tx_start_charge = 0
    /\ max_tasks = 2
    /\ tasks = EmptyBag
    /\ meter_pos = 1
    /\ heartbeat_pos = "sleep"
    /\ configuration = NewConfiguration(Cardinality(DOMAIN connectors))
    /\ connection = "open"
    /\ running = BackgroundTasks
    /\ self_tasks = BackgroundTasks
    /\ connected = TRUE
    /\ out = NoMsg
    /\ ev = NoEvent

NextOverlap ==
    \/ \E c \in DOMAIN connectors, rfid \in Rfids \cup {None} : PlugIn(c, rfid)
    \/ PlugInNotified
    \/ \E c \in DOMAIN connectors, rfid \in Rfids : SendAuthStart(c, rfid)
    \/ AuthorizeReply("Accepted")
    \/ AuthorizeNotified
    \/ StartTransactionReply("Id")
    \/ StartTransactionSlept
    \/ \E c \in DOMAIN connectors, reason \in Reasons : SendStopTransaction(c, reason)
    \/ StopTransactionReply
    \/ \E c \in DOMAIN connectors, stop_tx \in BOOLEAN : Unplug(c, stop_tx)
    \/ UnplugStopNotified
    \/ UnplugSlept
    \/ \E id_tag \in Rfids, c \in DOMAIN connectors : OnRemoteStartTransaction(id_tag, TRUE, c)
    \/ AfterRemoteStartTransaction
    \/ \E t \in TransactionIds : OnRemoteStopTransaction(t)
    \/ AfterRemoteStopTransaction
    \/ \E c \in DOMAIN connectors, limit \in {W(0), Half} : OnSetChargingProfile(c, limit)
    \/ AfterSetChargingProfile

SpecOverlap == InitOverlap /\ [][NextOverlap]_vars

\* ------------------------------------------------------------- the supervisor
\* get_fcs from its call on, for the connectors and the settings the supervisor
\* may be given; once boot_up has returned true the loops run beside the quick
\* start.
InitSupervisor ==
    /\ connectors \in {[c \in 1..n |-> NewConnector] : n \in {1, 2}}
    /\ transaction_connector = EmptyIndex
    /\ tx_start_charge = 0
    /\ max_tasks = 1
    /\ tasks = EmptyBag
    /\ meter_pos = 1
    /\ heartbeat_pos = "sleep"
    /\ configuration = NewConfiguration(Cardinality(DOMAIN connectors))
    /\ connection = "none"
    /\ running = {}
    /\ self_tasks = {}
    /\ connected = FALSE
    /\ out = NoMsg
    /\ ev = NoEvent

NextSupervisor ==
    \/ \E quick_start \in BOOLEAN, quick_start_rfid \in Rfids \cup {None},
          quick_start_connector \in {0, 1}, quick_start_charging \in {W(0), W(1)},
          has_quick_start_charging \in BOOLEAN, ok \in BOOLEAN :
          GetFcs(quick_start, quick_start_rfid, quick_start_connector, quick_start_charging,
                 has_quick_start_charging, ok)
    \/ \E status \in BootReplies, interval \in BootIntervals : GetFcsBootReply(status, interval)
    \/ GetFcsStatusNotified
    \/ GetFcsQuickStart
    \/ \E reply \in AuthorizeReplies \cup StartReplies : GetFcsReply(reply)
    \/ GetFcsResumed
    \/ SendHeartbeat
    \/ HeartbeatReply
    \/ MeterValueLoop

SpecSupervisor == InitSupervisor /\ [][NextSupervisor]_vars

\* ----------------------------------------------------------- a session plan
\* execute_session_plan once get_fcs has returned a booted station with the
\* connectors the request asks for: the plan is at its first await, the two
\* loops run beside it, the CSMS answers Authorize and StartTransaction as it
\* likes.
SessionConnectors == {1, 2}

InitSession ==
    \E connectors_ \in SessionConnectors :
    LET conn == [c \in 1..connectors_ |-> NewConnector]
        s == execute_session_plan(conn, EmptyIndex, SessionProgram, 1)
        f == SessionFrame(Frame("execute_session_plan", 0, None, TRUE, NoTransaction, 0, None),
                          s.step)
    IN  /\ connectors = s.r.conn
        /\ transaction_connector = s.r.idx
        /\ tx_start_charge = 0
        /\ max_tasks = 1
        /\ tasks = SetToBag({[f EXCEPT !.pc = s.r.pc]})
        /\ meter_pos = 1
        /\ heartbeat_pos = "sleep"
        /\ configuration = NewConfiguration(Cardinality(DOMAIN connectors))
        /\ connection = "open"
        /\ running = BackgroundTasks
        /\ self_tasks = BackgroundTasks
        /\ connected = TRUE
        /\ out = s.r.msg
        /\ ev = [NoEvent EXCEPT !.op = "execute_session_plan", !.seg = "call",
                                !.outcome = s.r.outcome, !.step = s.step]

NextSession ==
    \/ SessionStep
    \/ \E reply \in AuthorizeReplies \cup StartReplies : SessionReply(reply)
    \/ SessionResumed
    \/ SendHeartbeat
    \/ HeartbeatReply
    \/ MeterValueLoop

SpecSession == InitSession /\ [][NextSession]_vars

\* ---------------------------------------------------------------- properties
\* A connector holds a live transaction: an id is set and it was not stopped.
Live(k) == k.transaction_id # NoTransaction /\ ~k.already_stopped

\* The status the documentation of update_status gives for a power offered.
Target(p) ==
    IF p = W(0) THEN "SuspendedEVSE"
    ELSE IF p = W(-1) THEN "SuspendedEV"
    ELSE IF p = W(-2) THEN "Finishing"
    ELSE "Charging"

Count(log, x) == Cardinality({i \in DOMAIN log : log[i] = x})
Within(log, x) == \E i \in DOMAIN log : log[i] = x

\* C1, as stated: every entry t -> c of transaction_connector maps to a connector
\* whose transaction_id is t.
C1_EveryEntry ==
    \A t \in DOMAIN transaction_connector :
        connectors[transaction_connector[t]].transaction_id = t

\* C1, amended: every live transaction t of a connector c is in the index, and
\* transaction_connector[t] is c.
C1_LiveIndexed ==
    \A c \in DOMAIN connectors :
        Live(connectors[c]) =>
            /\ connectors[c].transaction_id \in DOMAIN transaction_connector
            /\ transaction_connector[connectors[c].transaction_id] = c

\* a live transaction next to the entry of a transaction whose stop is pending
C1_Witness ==
    \E c \in DOMAIN connectors :
        /\ Live(connectors[c])
        /\ connectors[c].pending_stop_tx.transaction_id \in DOMAIN transaction_connector
        /\ connectors[c].transaction_id \in DOMAIN transaction_connector

\* C2: a connector whose pending_stop_tx is set has neither a transaction_id nor
\* an id_tag.
C2_PendingMovedOut ==
    \A c \in DOMAIN connectors :
        connectors[c].pending_stop_tx # NoPending =>
            /\ connectors[c].transaction_id = NoTransaction
            /\ connectors[c].id_tag = None

\* C3, as stated: a connector is Charging exactly when its power_offered is
\* positive and it holds a live transaction.
C3_ChargingIff ==
    \A c \in DOMAIN connectors :
        connectors[c].status = "Charging"
            <=> (connectors[c].power_offered > 0 /\ Live(connectors[c]))

\* C3, amended: a connector that is Charging has a power_offered other than 0.
C3_ChargingPower ==
    \A c \in DOMAIN connectors :
        connectors[c].status = "Charging" => connectors[c].power_offered # W(0)

\* a connector that charges without any transaction
C3_Witness ==
    \E c \in DOMAIN connectors :
        /\ connectors[c].status = "Charging"
        /\ connectors[c].transaction_id = NoTransaction
        /\ ev.op = "set_charging_profile"

\* C4: while a connector holds one and the same live transaction its
\* energy_import_register never decreases.
C4_NonDecreasing ==
    [][\A c \in DOMAIN connectors :
          (/\ Live(connectors[c])
           /\ Live(connectors'[c])
           /\ connectors'[c].transaction_id = connectors[c].transaction_id)
          => connectors'[c].energy_import_register >= connectors[c].energy_import_register
      ]_vars

\* C5: a call of update_status that follows another call of it at once returns
\* false and changes nothing.
C5_Idempotent ==
    [][(ev.op = "update_status" /\ ev'.op = "update_status" /\ ev'.cid = ev.cid)
          => (ev'.ret = FALSE /\ connectors' = connectors)
      ]_vars

\* C6: update_status leaves the status that the table gives for power_offered and
\* returns true exactly when the status before the call was another one.
C6_Total ==
    [][ev'.op = "update_status"
          => LET c == ev'.cid
             IN  /\ connectors'[c].status = Target(connectors[c].power_offered)
                 /\ ev'.ret = (connectors[c].status # Target(connectors[c].power_offered))
      ]_vars

\* The steps that handle a SetChargingProfile request: its on-hook and after-hook
\* when the CSMS dispatched it, the one step of the endpoint and of a session plan.
ProfileOps == {"SetChargingProfile", "set_charging_profile", "charge"}

\* C7: no step of a SetChargingProfile request that was answered Rejected changes
\* a connector or sends a StatusNotification.
C7_RejectedNoChange ==
    [][(ev'.op \in ProfileOps /\ Within(ev'.log, "Rejected"))
          => (connectors' = connectors /\ out' = NoMsg)
      ]_vars

\* C8: a SetChargingProfile request for a connector that is Preparing and plugged
\* in is answered Accepted and sets power_offered to the limit; its after-hook
\* sets the status update_status derives from the limit, and sends a
\* StatusNotification of the connector exactly when that changed the status.
C8_OnHook(c) ==
    /\ ev'.reply = "Accepted"
    /\ connectors'[c].power_offered = ev'.limit

C8_AfterHook(c, before) ==
    /\ connectors'[c].power_offered = ev'.limit
    /\ connectors'[c].status = update_status([before EXCEPT !.power_offered = ev'.limit]).conn.status
    /\ out' = IF connectors'[c].status # before.status
              THEN StatusNotification(connectors', c)
              ELSE NoMsg

C8_Accepted ==
    [][/\ (ev'.op = "SetChargingProfile" /\ ev'.seg = "on"
              /\ ready_to_charge(connectors[ev'.cid]))
          => (/\ C8_OnHook(ev'.cid)
              /\ connectors'[ev'.cid].status = connectors[ev'.cid].status
              /\ out' = NoMsg)
       /\ (ev'.op = "SetChargingProfile" /\ ev'.seg = "after"
              /\ Within(ev'.log, "Accepted"))
          => C8_AfterHook(ev'.cid, connectors[ev'.cid])
       /\ (ev'.op \in {"set_charging_profile", "charge"}
              /\ ready_to_charge(connectors[ev'.cid]))
          => (C8_OnHook(ev'.cid) /\ C8_AfterHook(ev'.cid, connectors[ev'.cid]))
      ]_vars

\* the after-hook of an accepted request of the CSMS has notified the new status
C8_Witness ==
    /\ ev.op = "SetChargingProfile"
    /\ ev.seg = "after"
    /\ ev.log = <<"Accepted", "StatusNotification">>
    /\ out = StatusNotification(connectors, ev.cid)
    /\ connectors[ev.cid].status = Target(ev.limit)

\* C9: send_auth_start for a connector with nothing plugged in fails with a
\* RejectedRequestError of source CS, sends nothing and changes nothing.
C9_NotPlugged ==
    [][(ev'.op = "send_auth_start" /\ ev'.seg = "call"
              /\ ~connectors[ev'.cid].plugged_in)
          => /\ ev'.outcome = "RejectedCS"
             /\ ev'.log = <<>>
             /\ out' = NoMsg
             /\ connectors' = connectors
             /\ transaction_connector' = transaction_connector
             /\ tasks' = tasks
      ]_vars

\* send_auth_start was refused for an unplugged connector
C9_Witness ==
    /\ ev.op = "send_auth_start"
    /\ ev.outcome = "RejectedCS"
    /\ ~connectors[ev.cid].plugged_in

\* C10: send_auth_start for a plugged-in connector sends one Authorize.  On a
\* reply that is present and Accepted it records the id_tag, makes the connector
\* Preparing and goes on to StartTransaction; on any other reply it fails with a
\* RejectedRequestError of source CSMS, sends no StartTransaction and leaves
\* id_tag, transaction_id and the index as they were.
C10_AuthStart ==
    [][ev'.op = "send_auth_start" =>
          LET c == ev'.cid
          IN  /\ (ev'.seg = "call" /\ connectors[c].plugged_in)
                    => (/\ out' = AuthorizePayload(ev'.rfid)
                        /\ ev'.outcome = "running"
                        /\ connectors' = connectors)
              /\ ev'.outcome # "RejectedCS" => Count(ev'.log, "Authorize") = 1
              /\ (ev'.seg = "auth" /\ ev'.reply = "Accepted")
                    => (/\ connectors'[c].id_tag = ev'.rfid
                        /\ connectors'[c].status = "Preparing"
                        /\ ev'.outcome = "running"
                        /\ out' = IF connectors[c].status # "Preparing"
                                  THEN StatusNotification(connectors', c)
                                  ELSE StartTransactionPayload(connectors', c))
              /\ (ev'.seg = "auth" /\ ev'.reply # "Accepted")
                    => (/\ ev'.outcome = "RejectedCSMS"
                        /\ out' = NoMsg
                        /\ connectors' = connectors
                        /\ transaction_connector' = transaction_connector)
              /\ ev'.seg = "auth_sn" => out' = StartTransactionPayload(connectors', c)
              /\ Within(ev'.log, "StartTransaction") => Within(ev'.log, "Accepted")
              /\ ev'.outcome = "returned" => Within(ev'.log, "StartTransaction")
      ]_vars

\* an Invalid reply to Authorize ended send_auth_start for a plugged-in connector
C10_Witness ==
    /\ ev.op = "send_auth_start"
    /\ ev.log = <<"Authorize", "Invalid">>
    /\ ev.outcome = "RejectedCSMS"
    /\ connectors[ev.cid].plugged_in
    /\ out = NoMsg

\* C11, as stated: unplug(stop_tx=false) of a connector with a live transaction
\* leaves the prior id_tag, transaction_id and energy_import_register in
\* pending_stop_tx and clears the connector's own fields.
C11_Snapshot(c) ==
    /\ connectors'[c].pending_stop_tx =
           [set |-> TRUE, id_tag |-> connectors[c].id_tag,
            transaction_id |-> connectors[c].transaction_id,
            energy_import_register |-> connectors[c].energy_import_register]
    /\ connectors'[c].id_tag = None
    /\ connectors'[c].transaction_id = NoTransaction
    /\ connectors'[c].energy_import_register = 0
    /\ connectors'[c].power_offered = 0
    /\ ~connectors'[c].plugged_in
    /\ connectors'[c].already_stopped

C11_AnyLive ==
    [][(ev'.op = "unplug" /\ ev'.seg = "call" /\ ~ev'.stop_tx
              /\ Live(connectors[ev'.cid]))
          => C11_Snapshot(ev'.cid)
      ]_vars

\* C11, amended: the same for a connector that is plugged in; and a
\* send_stop_transaction that finds the snapshot of a transaction of the index
\* sends StopTransaction with the snapshot's transaction_id, id_tag and rounded
\* energy, removes that transaction from the index and resets the connector.
C11_PostponedStop ==
    [][LET c == ev'.cid
           p == connectors[c].pending_stop_tx
       IN  /\ (ev'.op = "unplug" /\ ev'.seg = "call" /\ ~ev'.stop_tx
                  /\ Live(connectors[c]) /\ connectors[c].plugged_in)
              => (/\ C11_Snapshot(c)
                  /\ transaction_connector' = transaction_connector)
           /\ (ev'.op = "send_stop_transaction" /\ ev'.seg = "call" /\ p # NoPending)
              => (/\ out' = StopTransactionPayload(p.transaction_id, p.id_tag,
                                                   Round(p.energy_import_register), None)
                  /\ connectors' = connectors
                  /\ transaction_connector' = transaction_connector)
           /\ (ev'.op = "send_stop_transaction" /\ ev'.seg = "stop" /\ p # NoPending
                  /\ p.transaction_id \in DOMAIN transaction_connector)
              => (/\ transaction_connector' = Del(transaction_connector, p.transaction_id)
                  /\ connectors'[c] = reset(connectors[c], FALSE)
                  /\ connectors'[c].pending_stop_tx = NoPending
                  /\ ev'.outcome = "returned")
      ]_vars

\* a postponed stop was sent and the connector reset
C11_Witness ==
    /\ ev.op = "send_stop_transaction"
    /\ ev.seg = "stop"
    /\ ev.outcome = "returned"
    /\ ev.log = <<"StopTransaction">>
    /\ connectors[ev.cid].status = "Available"
    /\ connectors[ev.cid].pending_stop_tx = NoPending
    /\ transaction_connector = EmptyIndex

\* C12: reset(postpone_stop_tx=false) clears id_tag, transaction_id and
\* pending_stop_tx, zeroes energy_import_register and power_offered, sets
\* plugged_in false, already_stopped true and error_code NoError, makes the
\* status Unavailable if change_to_unavailable is latched and Available if not,
\* and leaves the latch as it was.
C12_ResetClears ==
    [][(ev'.op = "reset" /\ ev'.type = None)
          => LET k == connectors'[ev'.cid]
                 before == connectors[ev'.cid]
             IN  /\ k.id_tag = None
                 /\ k.transaction_id = NoTransaction
                 /\ k.pending_stop_tx = NoPending
                 /\ k.energy_import_register = 0
                 /\ k.power_offered = 0
                 /\ ~k.plugged_in
                 /\ k.already_stopped
                 /\ k.error_code = "NoError"
                 /\ k.status = IF before.change_to_unavailable
                               THEN "Unavailable" ELSE "Available"
                 /\ k.change_to_unavailable = before.change_to_unavailable
                 /\ DOMAIN connectors' = DOMAIN connectors
      ]_vars

\* a reset under the latch has cleared the connector
C12_Witness ==
    /\ ev.op = "reset"
    /\ ev.type = None
    /\ ev.log = <<"Inoperative", "reset">>
    /\ connectors[ev.cid].status = "Unavailable"
    /\ connectors[ev.cid].pending_stop_tx = NoPending

\* C13: reset(postpone_stop_tx=true) of a connector without a live transaction
\* leaves pending_stop_tx empty.
C13_NoSnapshot ==
    [][(ev'.op = "reset" /\ ev'.type = "postpone_stop_tx" /\ ~Live(connectors[ev'.cid]))
          => connectors'[ev'.cid].pending_stop_tx = NoPending
      ]_vars

\* C14: change_availability(Inoperative) makes an Available connector
\* Unavailable and returns true; a change_availability(Operative) that follows
\* makes it Available again, returns true and leaves the latch off.
C14_RoundTrip ==
    [][ev'.op = "change_availability" =>
          LET c == ev'.cid
          IN  /\ (ev'.type = "Inoperative" /\ connectors[c].status = "Available")
                 => (connectors'[c].status = "Unavailable" /\ ev'.ret)
              /\ (ev'.type = "Operative" /\ ev.op = "change_availability"
                     /\ ev.type = "Inoperative" /\ ev.ret)
                 => (/\ connectors'[c].status = "Available"
                     /\ ev'.ret
                     /\ ~connectors'[c].change_to_unavailable)
      ]_vars

\* Inoperative, then Operative, have brought a connector back to Available
C14_Witness ==
    /\ ev.log = <<"Inoperative", "Operative">>
    /\ ev.ret
    /\ connectors[ev.cid].status = "Available"
    /\ ~connectors[ev.cid].change_to_unavailable

\* C15: change_availability(Inoperative) of a connector that is not Available
\* returns false, keeps the status and sets the latch; a reset under the latch
\* gives Unavailable; a change_availability(Operative) after it gives Available
\* and takes the latch off.
C15_Latch ==
    [][LET c == ev'.cid
       IN  /\ (ev'.op = "change_availability" /\ ev'.type = "Inoperative"
                  /\ connectors[c].status # "Available")
              => (/\ ~ev'.ret
                  /\ connectors'[c].status = connectors[c].status
                  /\ connectors'[c].change_to_unavailable)
           /\ (ev'.op = "reset" /\ connectors[c].change_to_unavailable)
              => (/\ connectors'[c].status = "Unavailable"
                  /\ connectors'[c].change_to_unavailable)
           /\ (ev'.op = "change_availability" /\ ev'.type = "Operative"
                  /\ ev.op = "reset" /\ connectors[c].change_to_unavailable)
              => (/\ connectors'[c].status = "Available"
                  /\ ev'.ret
                  /\ ~connectors'[c].change_to_unavailable)
      ]_vars

\* latched while Charging, reset to Unavailable, made Available again
C15_Witness ==
    /\ ev.log = <<"Inoperative", "reset", "Operative">>
    /\ ev.ret
    /\ connectors[ev.cid].status = "Available"
    /\ ~connectors[ev.cid].change_to_unavailable

\* C16: a RemoteStartTransaction without connector_id is answered Rejected and
\* then changes no connector and sends nothing; one with a connector_id is
\* answered Accepted, records the id_tag on that connector, and its after-hook
\* sends StartTransaction for that connector.
C16_RemoteStart ==
    [][ev'.op = "RemoteStartTransaction" =>
          LET c == ev'.cid
          IN  /\ Within(ev'.log, "Rejected")
                 => (connectors' = connectors /\ out' = NoMsg)
              /\ (ev'.seg = "on" /\ ev'.reply = "Accepted")
                 => (connectors'[c].id_tag = ev'.rfid /\ out' = NoMsg)
              /\ (ev'.seg = "after" /\ Within(ev'.log, "Accepted"))
                 => out' = StartTransactionPayload(connectors, c)
      ]_vars

\* C17: RemoteStopTransaction(t) is answered Accepted exactly when t is in the
\* index; the after-hook of an accepted one sends StopTransaction for t, and the
\* reply to it removes the entry of t; a rejected one sends nothing and changes
\* nothing.
C17_RemoteStop ==
    [][ev'.op = "RemoteStopTransaction" =>
          LET t == ev'.transaction_id
          IN  /\ ev'.seg = "on"
                 => (/\ ev'.reply = IF t \in DOMAIN transaction_connector
                                    THEN "Accepted" ELSE "Rejected"
                     /\ out' = NoMsg
                     /\ connectors' = connectors
                     /\ transaction_connector' = transaction_connector)
              /\ (ev'.seg = "after" /\ Within(ev'.log, "Accepted"))
                 => (/\ out'.type = "StopTransaction"
                     /\ out'.transaction_id = t
                     /\ ev'.cid = transaction_connector[t])
              /\ (ev'.seg = "stop" /\ ev'.outcome # "KeyError")
                 => (/\ t \notin DOMAIN transaction_connector'
                     /\ \A u \in DOMAIN transaction_connector' :
                           u \in DOMAIN transaction_connector)
              /\ Within(ev'.log, "Rejected")
                 => (/\ out' = NoMsg
                     /\ connectors' = connectors
                     /\ transaction_connector' = transaction_connector)
      ]_vars


\* --- boot and disconnect
Emitters == {"heartbeat", "meter"}

\* boot_up has returned false: the connection is open, nothing of the station
\* listens on it
Refused == connection = "open" /\ ~Booting /\ ~connected /\ ~Receiving

\* C18: when the CSMS answers BootNotification with Rejected, boot_up returns
\* false at that step, having sent BootNotification and nothing else, the
\* receiver task is cancelled, and neither then nor at any step taken from the
\* refused station is a heartbeat or meter-value task running, a Heartbeat or
\* MeterValues sent, or connected true.
C18_Rejected ==
    [][/\ (ev'.op = "boot_up" /\ ev'.reply = "Rejected")
            => /\ ev'.outcome = "returned"
               /\ ev'.ret = FALSE
               /\ ev'.log = <<"BootNotification", "Rejected">>
               /\ out' = NoMsg
               /\ Refused'
               /\ running' = {}
               /\ self_tasks' = {}
       /\ Refused
            => /\ running' \cap Emitters = {}
               /\ out'.type \notin {"Heartbeat", "MeterValues"}
               /\ ~connected'
               /\ Refused' \/ connection' = "closed"]_vars

C18_Witness ==
    /\ ev.op = "boot_up"
    /\ ev.reply = "Rejected"
    /\ ev.ret = FALSE
    /\ ev.outcome = "returned"
    /\ Refused
    /\ running = {}


\* the step at which boot_up returns true
BootCompleted == ev'.op = "boot_up" /\ ev'.ret = TRUE

\* C19: no call leaves the station before BootNotification; the k-th
\* StatusNotification of boot_up is for connector k; when boot_up returns true it
\* has sent BootNotification first and then one StatusNotification per connector
\* and nothing else, and that step is the one that starts the heartbeat and
\* meter-value tasks and sets connected; no Heartbeat or MeterValues is sent
\* before it.
C19_BootOrder ==
    [][/\ connection = "none" => out = NoMsg /\ out'.type \in {"None", "BootNotification"}
       /\ (ev'.op = "boot_up" /\ out'.type = "StatusNotification")
            => /\ out'.connector_id = Count(ev'.log, "StatusNotification")
               /\ running' \cap Emitters = {}
               /\ ~connected'
       /\ BootCompleted
            => /\ Len(ev'.log) = 2 + Cardinality(DOMAIN connectors)
               /\ ev'.log[1] = "BootNotification"
               /\ ev'.log[2] \in {"Accepted", "Pending"}
               /\ \A i \in 3..Len(ev'.log) : ev'.log[i] = "StatusNotification"
               /\ running' = BackgroundTasks
               /\ self_tasks' = BackgroundTasks
               /\ connected'
       /\ (running' \cap Emitters) \ running # {} => BootCompleted
       /\ (connected' /\ ~connected) => BootCompleted
       /\ out'.type \in {"Heartbeat", "MeterValues"} => connected /\ ~Booting]_vars

C19_Witness ==
    /\ ev.op = "boot_up"
    /\ ev.ret = TRUE
    /\ ev.log = <<"BootNotification", "Accepted", "StatusNotification", "StatusNotification">>
    /\ connected
    /\ running = BackgroundTasks


\* the coroutines spawned for the after-hooks of the CSMS's calls
HandlerOps ==
    {"RemoteStartTransaction", "RemoteStopTransaction", "ChangeAvailability",
     "SetChargingProfile"}

\* disconnect has completed
Disconnected == connection = "closed" /\ ~connected /\ Suspended("close") = {}

\* C20: once disconnect has completed, no task of the station runs: none of the
\* three background tasks, and no coroutine spawned by a handler takes a step or
\* sends a call; the task set is empty and connected is false.
C20_AllCancelled ==
    [][Disconnected
         => /\ running' = {}
            /\ self_tasks' = {}
            /\ ~connected'
            /\ out' = NoMsg
            /\ ev'.op \notin HandlerOps]_vars


\* --- energy and the meter-value loop
Max(a, b) == IF a >= b THEN a ELSE b

\* C24: consume_energy adds max(power_offered, 0) to energy_import_register:
\* nothing for an offered power of 0 or less, power_offered when positive.
C24_ClampedAdd ==
    [][ev'.op = "consume_energy"
         => \A c \in DOMAIN connectors :
               c = ev'.cid
                 => connectors'[c].energy_import_register
                      = connectors[c].energy_import_register
                          + Max(connectors[c].power_offered, 0)]_vars


\* C23: a MeterValues call comes from the meter-value loop, for a connector
\* that was Charging when the loop came to it; in that same step the connector's
\* register has grown by its power_offered exactly once, nothing else of any
\* connector has changed, and the payload carries the new register and the
\* connector's power_offered; a turn of the loop that sends nothing consumes
\* nothing.
C23_MeterValues ==
    [][/\ out'.type = "MeterValues"
            => /\ ev'.op = "meter_value_loop"
               /\ out'.connector_id = ev'.cid
               /\ connectors[ev'.cid].status = "Charging"
               /\ connectors' =
                     SetC(connectors, ev'.cid,
                          [connectors[ev'.cid] EXCEPT
                              !.energy_import_register =
                                  connectors[ev'.cid].energy_import_register
                                    + connectors[ev'.cid].power_offered])
               /\ out'.meter = connectors'[ev'.cid].energy_import_register
               /\ out'.power = connectors'[ev'.cid].power_offered
               /\ out'.transaction_id = connectors'[ev'.cid].transaction_id
       /\ (ev'.op = "meter_value_loop" /\ out'.type # "MeterValues")
            => /\ connectors' = connectors
               /\ \A c \in DOMAIN connectors :
                     c >= meter_pos => connectors[c].status # "Charging"]_vars

C23_Witness ==
    /\ ev.op = "meter_value_loop"
    /\ out.type = "MeterValues"
    /\ out.connector_id = 2
    /\ out.meter = Half
    /\ out.power = Half
    /\ connectors[2].status = "Charging"
    /\ connectors[1].status = "Charging"


\* --- unplug with stop_tx
\* C27: unplug(cid, stop_tx=true) of a plugged-in connector with a live
\* transaction first sends StopTransaction for that transaction, with reason
\* EVDisconnected, the connector not yet reset; the step of unplug that ends it
\* resets the connector and sends the StatusNotification of the status reset
\* leaves; unplug of a connector whose transaction is already stopped sends no
\* StopTransaction.
C27_UnplugStops ==
    [][LET c == ev'.cid
           k == connectors[c]
       IN  ev'.op = "unplug"
             => /\ (ev'.seg = "call" /\ ev'.stop_tx /\ k.plugged_in /\ Live(k))
                    => /\ out' = StopTransactionPayload(k.transaction_id, k.id_tag,
                                                        Round(k.energy_import_register),
                                                        "EVDisconnected")
                       /\ connectors' = connectors
                /\ (ev'.seg = "call" /\ k.plugged_in /\ k.already_stopped)
                    => /\ out'.type = "StatusNotification"
                       /\ ev'.outcome = "returned"
                /\ (ev'.outcome = "returned" /\ (ev'.seg # "call" \/ k.plugged_in))
                    => /\ connectors'[c] = reset(k, ~ev'.stop_tx)
                       /\ out' = StatusNotification(connectors', c)
                       /\ out'.status = IF k.change_to_unavailable
                                        THEN "Unavailable" ELSE "Available"]_vars


\* --- send_start_transaction
\* C28: send_start_transaction has sent one StartTransaction when the reply
\* arrives; a reply with a transaction id, 0 included, leaves the connector with
\* that transaction live and indexed under the connector's id; a reply without
\* one changes no connector and no index entry, sends nothing and ends
\* send_start_transaction.
C28_StartReply ==
    [][ev'.seg = "start"
         => LET c == ev'.cid
            IN  /\ Count(ev'.log, "StartTransaction") = 1
                /\ ev'.reply \in {"Id", "Zero"}
                     => /\ Live(connectors'[c])
                        /\ connectors'[c].transaction_id \in DOMAIN transaction_connector'
                        /\ transaction_connector'[connectors'[c].transaction_id] = c
                        /\ connectors'[c].transaction_id \notin DOMAIN transaction_connector
                /\ ev'.reply = "NoId"
                     => /\ connectors' = connectors
                        /\ transaction_connector' = transaction_connector
                        /\ out' = NoMsg
                        /\ ev'.outcome = "returned"]_vars


\* C29, as stated: with tx_start_charge set, the reply that starts a
\* transaction leaves the connector with power_offered = tx_start_charge and
\* status Charging, and the StatusNotification after the sleep reports Charging.
C29_QuickCharge ==
    [][LET c == ev'.cid
       IN  /\ (ev'.seg = "start" /\ ev'.reply = "Id" /\ tx_start_charge # 0)
                => /\ connectors'[c].power_offered = tx_start_charge
                   /\ connectors'[c].status = "Charging"
           /\ (ev'.seg = "start_sleep" /\ tx_start_charge # 0)
                => /\ out'.type = "StatusNotification"
                   /\ out'.status = "Charging"]_vars

\* C29, amended: with a positive tx_start_charge, the reply that starts a
\* transaction leaves the connector with power_offered = tx_start_charge and
\* status Charging; the StatusNotification after the sleep reports the status
\* the connector has when the sleep ends, which is Charging when no other step
\* was taken during the sleep.
C29_QuickChargePositive ==
    [][LET c == ev'.cid
       IN  /\ (ev'.seg = "start" /\ ev'.reply = "Id" /\ tx_start_charge > 0)
                => /\ connectors'[c].power_offered = tx_start_charge
                   /\ connectors'[c].status = "Charging"
                   /\ out' = NoMsg
           /\ ev'.seg = "start_sleep"
                => /\ out' = StatusNotification(connectors, c)
                   /\ connectors' = connectors
           /\ (ev'.seg = "start_sleep" /\ ev.seg = "start" /\ ev.reply = "Id"
                  /\ ev.cid = c /\ tx_start_charge > 0)
                => out'.status = "Charging"]_vars

C29_Witness ==
    /\ tx_start_charge = W(1)
    /\ ev.seg = "start_sleep"
    /\ out.type = "StatusNotification"
    /\ out.status = "Charging"
    /\ connectors[ev.cid].power_offered = W(1)
    /\ Live(connectors[ev.cid])

\* C26: every value of the configuration map is a string in every reachable
\* state: at construction, after boot_up has stored the interval of the CSMS,
\* after any ChangeConfiguration.
C26_AllStrings == \A key \in DOMAIN configuration : configuration[key].type = "str"

\* C25: GetConfiguration without keys returns an entry for every configuration
\* key; with keys, configuration_key is the flat list of the entries (key,
\* readonly false, current value) of exactly the requested keys that exist and
\* unknown_key exactly the requested keys that do not, so every requested key is
\* in exactly one of the two lists.
C25_GetConfiguration ==
    [][ev'.op = "GetConfiguration" =>
        LET reply == ev'.payload
            requested == ev'.keys.set
            listed == {e.key : e \in {x \in reply.configuration_key : x.kind = "dict"}}
        IN  IF ~ev'.keys.given
            THEN listed = DOMAIN configuration
            ELSE /\ reply.configuration_key =
                        {Entry(key, configuration[key]) :
                            key \in requested \cap DOMAIN configuration}
                 /\ reply.unknown_key = requested \ DOMAIN configuration
                 /\ \A key \in requested : (key \in listed) # (key \in reply.unknown_key)]_vars

\* A step in which a loop comes to the sleep that ends its iteration, and the
\* configuration key the length of that sleep is read from.
HeartbeatSleeps == ev'.op = "send_heartbeat" /\ ev'.seg = "reply"
MeterSleeps == ev'.op = "meter_value_loop" /\ meter_pos' = 1

\* The sleep begun in the step is as long as the current value of `key` says;
\* when int() cannot read the value, no sleep begins and the loop `task` ends.
SleepsFor(task, key) ==
    LET interval == int(configuration'[key])
    IN  IF interval.ok
        THEN ev'.outcome = "running" /\ ev'.sleep = interval.int /\ task \in running'
        ELSE ev'.outcome = interval.error /\ ev'.sleep = 0 /\ task \notin running'

\* C22: ChangeConfiguration(key, value) replies Accepted and leaves
\* configuration[key] = value, every other key as it was; each loop reads its
\* interval from configuration at every sleep it begins, so the next sleep has
\* the length the configuration gives at that moment, never an earlier one.
C22_LiveIntervals ==
    [][
        /\ ev'.op = "ChangeConfiguration" =>
            /\ ev'.reply = "Accepted"
            /\ DOMAIN configuration' = DOMAIN configuration \cup {ev'.key}
            /\ configuration'[ev'.key] = ev'.value
            /\ \A key \in DOMAIN configuration \ {ev'.key} :
                    configuration'[key] = configuration[key]
        /\ (ev'.op # "ChangeConfiguration" /\ ev'.op # "boot_up") =>
            configuration' = configuration
        /\ HeartbeatSleeps => SleepsFor("heartbeat", "HeartbeatInterval")
        /\ MeterSleeps => SleepsFor("meter", "MeterValueSampleInterval")
    ]_vars

\* C22 witness: the heartbeat loop has begun a sleep of the 5 seconds a
\* ChangeConfiguration set, and the meter-value loop would sleep 5 seconds too.
C22_Witness ==
    /\ ev.op = "send_heartbeat"
    /\ ev.sleep = 5
    /\ configuration["HeartbeatInterval"] = PyStr("5")
    /\ configuration["MeterValueSampleInterval"] = PyStr("5")

\* C21: stop_fcs unplugs every connector, then sleeps, then disconnects only
\* when the station is still connected; provided every call it sends returns,
\* it returns, and then no connector is plugged in and connected is false.
C21_StopFcs ==
    [][(ev'.op = "stop_fcs" /\ ev'.outcome # "ConnectionClosed") =>
        /\ ev'.outcome \in {"running", "returned"}
        /\ ev'.seg = "fcs_sleep" => (connected <=> ev'.outcome = "running")
        /\ ev'.outcome = "returned" =>
              /\ \A c \in DOMAIN connectors : ~connectors'[c].plugged_in
              /\ ~connected']_vars

\* The status changes of the plan: from, to, and the step that makes the change
SessionEdges ==
    { <<"Available", "Preparing", "plugin">>, <<"Preparing", "Charging", "charge">>,
      <<"Charging", "Finishing", "stop">>, <<"Finishing", "Available", "unplug">> }

C40_OwesWithId ==
    \A c \in DOMAIN connectors :
        ~connectors[c].already_stopped => connectors[c].transaction_id # NoTransaction

\* C40 witness: a StartTransaction reply with an id has just been taken, the
\* connector holds the id and owes its StopTransaction
C40_Witness ==
    /\ ev.seg = "start"
    /\ ev.reply = "Id"
    /\ ~connectors[ev.cid].already_stopped
    /\ connectors[ev.cid].transaction_id \in TransactionIds

\* C32: every StopTransaction sent carries the id of a transaction a
\* StartTransaction reply assigned and for which no StopTransaction was sent
\* before: the id is not empty, it is in the index, and no other stop of the
\* same transaction is awaiting its reply; under any interleaving of operator
\* stop, unplug and RemoteStopTransaction.
C32_StopOnce ==
    [][out'.type = "StopTransaction" =>
        /\ out'.transaction_id # NoTransaction
        /\ out'.transaction_id \in DOMAIN transaction_connector
        /\ \A f \in Suspended("stop") : f.tx # out'.transaction_id]_vars

\* C31: set_charging_profile with limit 0, -1 or -2 for a connector that is
\* charging stops the charging: the connector takes the status SuspendedEVSE,
\* SuspendedEV or Finishing of the limit and a StatusNotification with it is sent.
C31_StopsCharging ==
    [][(/\ ev'.op = "set_charging_profile"
        /\ connectors[ev'.cid].status = "Charging"
        /\ ev'.limit \in {W(0), W(-1), W(-2)})
          => (/\ connectors'[ev'.cid].status = Target(ev'.limit)
              /\ out' = StatusNotification(connectors', ev'.cid)
              /\ out'.status \in {"SuspendedEVSE", "SuspendedEV", "Finishing"})
      ]_vars

\* C33: a pending_stop_tx snapshot that holds a transaction is changed or cleared
\* only by the step of a send_stop_transaction that takes the reply to the
\* StopTransaction it sent for that transaction; no other step discards it.
C33_SnapshotKept ==
    [][\A c \in DOMAIN connectors :
          LET p == connectors[c].pending_stop_tx
          IN  (/\ p # NoPending
               /\ p.transaction_id # NoTransaction
               /\ connectors'[c].pending_stop_tx # p)
              => (/\ ev'.seg = "stop"
                  /\ ev'.cid = c
                  /\ \E f \in Suspended("stop") :
                         f.cid = c /\ f.tx = p.transaction_id)
      ]_vars

\* C34: StartTransaction is never sent for a connector that has a live
\* transaction, and the reply to a StartTransaction never overwrites the
\* transaction_id of a transaction that is not stopped; whatever the order of
\* send_auth_start, plug_in with an RFID and RemoteStartTransaction.
C34_NoStartOverLive ==
    [][/\ out'.type = "StartTransaction" => ~Live(connectors[out'.connector_id])
       /\ (ev'.seg = "start" /\ Live(connectors[ev'.cid]))
          => connectors'[ev'.cid].transaction_id = connectors[ev'.cid].transaction_id
      ]_vars

\* C35: every StartTransaction sent carries an id_tag, also when an unplug of
\* the connector runs while send_auth_start or the RemoteStartTransaction hooks
\* are suspended between recording the id_tag and sending StartTransaction.
C35_StartHasIdTag ==
    [][out'.type = "StartTransaction" => out'.id_tag \in Rfids]_vars

\* C36: a connector that is Unavailable leaves that status only in the
\* after-hook of a ChangeAvailability(Operative) for it: no step of plug_in,
\* send_auth_start, SetChargingProfile or unplug moves it to another status.
C36_StaysUnavailable ==
    [][\A c \in DOMAIN connectors :
          (connectors[c].status = "Unavailable" /\ connectors'[c].status # "Unavailable")
              => (/\ ev'.op = "ChangeAvailability"
                  /\ ev'.seg = "after"
                  /\ ev'.type = "Operative"
                  /\ ev'.cid = c)
      ]_vars

\* C37: in every reachable state a connector with nothing plugged in is
\* Available or Unavailable, however SetChargingProfile, RemoteStartTransaction
\* and the operator's requests interleave with unplug.
C37_UnpluggedIdle ==
    \A c \in DOMAIN connectors :
        ~connectors[c].plugged_in => connectors[c].status \in {"Available", "Unavailable"}

\* C39: once the BootNotification of get_fcs has been answered Rejected (boot_up
\* returns false), get_fcs sends no Authorize, StartTransaction or
\* StatusNotification and plugs no connector in.
C39_NoQuickStartUnbooted ==
    [][(ev'.op = "get_fcs" /\ Within(ev'.log, "Rejected"))
          => (/\ out'.type \notin {"Authorize", "StartTransaction", "StatusNotification"}
              /\ \A c \in DOMAIN connectors :
                     connectors'[c].plugged_in = connectors[c].plugged_in)
      ]_vars

\* C38: no operation changes the status of a connector without a
\* StatusNotification of the new status following: a step that changes the
\* status and leaves the station quiescent (no operation, handler or after-hook
\* in progress) sends the StatusNotification of that connector itself, so that
\* the last StatusNotification of a connector carries its current status.
C38_StatusNotified ==
    [][\A c \in DOMAIN connectors :
          (connectors'[c].status # connectors[c].status /\ tasks' = EmptyBag)
              => (/\ out' = StatusNotification(connectors', c)
                  /\ out'.status = connectors'[c].status)
      ]_vars

====
